---- MODULE Spec2Model ----
(***************************************************************************)
(* PennyPilot: the entry collection of DataManager (add / remove / sort /  *)
(* write-through to the backing CSV file), the Entries view that drives    *)
(* it, and the cost aggregation (cost_map, monthly_cost) read by the graph.*)
(*                                                                         *)
(* Text (entry names, category names, CSV lines) is a sequence of          *)
(* one-character strings.  A cost is a whole amount: every value used is   *)
(* exactly representable in f32, so f32 addition is exact on them.         *)
(***************************************************************************)
EXTENDS Integers, Sequences, FiniteSets, TLC

VARIABLES
    entries,                \* DataManager.entries : Vec<Entry>
    sort_by,                \* DataManager.sort_by : SortBy
    active_file,            \* DataManager.active_file : Option<PathBuf>
    plot_reset_next_frame,  \* DataManager.plot_reset_next_frame : bool
    entry_view,             \* Entries { sort_by, sort_order, allow_deletion }
    fs,                     \* the file system: path -> content, or NoFile
    op,                     \* the handler that ran last, with what it did
    query,                  \* the aggregation call made last, with its result
    pc,                     \* which run this is, and where a scripted run stands
    cat_mgr,                \* CategoryManager.categories: name -> CategoryInfo
    spending_warnings_enabled, \* CategoryManager.spending_warnings_enabled : bool
    add_entry_view,         \* AddEntry { category }: the form's category field
    file_pick,              \* App.file_pick : Arc<Mutex<Option<FileResponse>>>
    tasks                   \* the futures spawned by the wasm import button

\* the state of App outside DataManager, Entries and the categories
app_vars == <<spending_warnings_enabled, add_entry_view, file_pick, tasks>>

vars == <<entries, sort_by, active_file, plot_reset_next_frame, entry_view, fs, op,
          query, pc, cat_mgr, app_vars>>

(***************************************************************************)
(* Bounds                                                                  *)
(***************************************************************************)
MaxEntries == 3      \* longest entry collection of the DataManager state machine
MaxFaultyEntries == 2   \* the same, in the runs "faulty", "import" and "app"
MaxAggEntries == 2   \* longest entry collection handed to the aggregation

(***************************************************************************)
(* chrono::NaiveDate: a proleptic Gregorian calendar date                  *)
(***************************************************************************)
NaiveDate(y, m, d) == [year |-> y, month |-> m, day |-> d]

IsLeapYear(y) == (y % 4 = 0 /\ y % 100 # 0) \/ y % 400 = 0

DaysInMonth(y, m) ==
    IF m = 2 THEN (IF IsLeapYear(y) THEN 29 ELSE 28)
    ELSE IF m \in {4, 6, 9, 11} THEN 30 ELSE 31

RECURSIVE DaysBeforeMonth(_, _)
DaysBeforeMonth(y, m) ==
    IF m = 1 THEN 0 ELSE DaysBeforeMonth(y, m - 1) + DaysInMonth(y, m - 1)

\* Datelike::num_days_from_ce: 0001-01-01 is day 1
num_days_from_ce(date) ==
    LET y1 == date.year - 1
    IN  365 * y1 + (y1 \div 4) - (y1 \div 100) + (y1 \div 400)
          + DaysBeforeMonth(date.year, date.month) + date.day

RECURSIVE MonthOfOrdinal(_, _, _)
\* the month and day of the ordinal (1-based day of year) `ord` of year y
MonthOfOrdinal(y, m, ord) ==
    IF ord <= DaysInMonth(y, m) THEN NaiveDate(y, m, ord)
    ELSE MonthOfOrdinal(y, m + 1, ord - DaysInMonth(y, m))

Min2(a, b) == IF a < b THEN a ELSE b

\* NaiveDate::from_num_days_from_ce_opt, for the days >= 1 the program passes
from_num_days_from_ce_opt(days) ==
    LET n0   == days - 1
        n400 == n0 \div 146097
        r400 == n0 % 146097
        n100 == Min2(r400 \div 36524, 3)
        r100 == r400 - n100 * 36524
        n4   == r100 \div 1461
        r4   == r100 % 1461
        n1   == Min2(r4 \div 365, 3)
        doy  == r4 - n1 * 365
        y    == 400 * n400 + 100 * n100 + 4 * n4 + n1 + 1
    IN  MonthOfOrdinal(y, 1, doy + 1)

\* the derived PartialOrd of NaiveDate
DateLess(a, b) ==
    \/ a.year < b.year
    \/ a.year = b.year /\ a.month < b.month
    \/ a.year = b.year /\ a.month = b.month /\ a.day < b.day

(***************************************************************************)
(* Entry                                                                   *)
(***************************************************************************)
Entry(n, c, d, cat) == [name |-> n, cost |-> c, date |-> d, category |-> cat]

Misc == <<"m", "i", "s", "c">>
Rent == <<"r", "e", "n", "t">>
Food == <<"f", "o", "o", "d">>

SeqsUpTo(S, n) == UNION {[1..k -> S] : k \in 0..n}

ToSet(s) == {s[i] : i \in 1..Len(s)}

Front(s) == SubSeq(s, 1, Len(s) - 1)
Last(s) == s[Len(s)]

(***************************************************************************)
(* organize.rs                                                             *)
(***************************************************************************)
GroupBy == {"Day", "Month", "Year"}
SortBy == {"Date", "Cost"}
SortOrder == {"Increasing", "Decreasing"}

(***************************************************************************)
(* DataManager::sort_entries                                               *)
(***************************************************************************)
Cmp(a, b) == IF a < b THEN "Less" ELSE IF a > b THEN "Greater" ELSE "Equal"

\* the comparator sort_entries selects for a sort key
comparator(by, a, b) ==
    IF by = "Cost" THEN Cmp(a.cost, b.cost)
    ELSE IF a.date.year # b.date.year THEN Cmp(a.date.year, b.date.year)
    ELSE IF a.date.month # b.date.month THEN Cmp(a.date.month, b.date.month)
    ELSE Cmp(a.date.day, b.date.day)

RECURSIVE InsertStable(_, _, _)
\* e goes before the first element that compares Greater than it
InsertStable(s, e, by) ==
    IF s = <<>> THEN <<e>>
    ELSE IF comparator(by, Head(s), e) = "Greater" THEN <<e>> \o s
    ELSE <<Head(s)>> \o InsertStable(Tail(s), e, by)

RECURSIVE slice_sort_by(_, _)
\* Vec::sort_by: a stable sort
slice_sort_by(s, by) ==
    IF s = <<>> THEN <<>>
    ELSE InsertStable(slice_sort_by(Front(s), by), Last(s), by)

(***************************************************************************)
(* DataManager::cost_map and its helpers                                   *)
(***************************************************************************)
EmptyMap == [k \in {} |-> 0]

MapPut(f, k, v) == [x \in (DOMAIN f) \cup {k} |-> IF x = k THEN v ELSE f[x]]

RECURSIVE ExtremesFrom(_, _, _)
\* the loop of entries_date_extremes: (earliest, latest) entry so far
ExtremesFrom(es, earliest, latest) ==
    IF es = <<>> THEN <<earliest, latest>>
    ELSE LET e == Head(es)
             ne == IF DateLess(e.date, earliest.date) THEN e ELSE earliest
             nl == IF DateLess(latest.date, e.date) THEN e ELSE latest
         IN  ExtremesFrom(Tail(es), ne, nl)

\* entries_date_extremes on a non-empty collection
entries_date_extremes(es) == ExtremesFrom(Tail(es), Head(es), Head(es))

KeepsDate(date, group_by) ==
    CASE group_by = "Day" -> TRUE
      [] group_by = "Month" -> date.day = 1
      [] group_by = "Year" -> date.month = 1 /\ date.day = 1

zero_cost_map(es, categories, group_by) ==
    LET ext == entries_date_extremes(es)
        first_days == num_days_from_ce(ext[1].date)
        last_days == num_days_from_ce(ext[2].date)
        all == {from_num_days_from_ce_opt(n) : n \in first_days..last_days}
        dates == {d \in all : KeepsDate(d, group_by)}
    IN  [c \in ToSet(categories) |-> [d \in dates |-> 0]]

\* variant of scaled_date: the date is not scaled to its bucket
scaled_date_unscaled(date, group_by) == date

scaled_date(date, group_by) ==
    CASE group_by = "Day" -> date
      [] group_by = "Month" -> NaiveDate(date.year, date.month, 1)
      [] group_by = "Year" -> NaiveDate(date.year, 1, 1)

RECURSIVE SumInto_overwrite(_, _, _, _)
\* variant of the loop of cost_map: the cost replaces the sum of its bucket
SumInto_overwrite(map, es, group_by, categories) ==
    IF es = <<>> THEN map
    ELSE LET e == Head(es)
         IN  IF e.category \notin ToSet(categories)
             THEN SumInto_overwrite(map, Tail(es), group_by, categories)
             ELSE LET sd == scaled_date(e.date, group_by)
                      inner == IF e.category \in DOMAIN map
                               THEN map[e.category] ELSE EmptyMap
                      inner2 == MapPut(inner, sd, e.cost)
                  IN  SumInto_overwrite(MapPut(map, e.category, inner2), Tail(es),
                                        group_by, categories)

RECURSIVE SumInto_unfiltered(_, _, _, _)
\* variant of the loop of cost_map: no entry is skipped
SumInto_unfiltered(map, es, group_by, categories) ==
    IF es = <<>> THEN map
    ELSE LET e == Head(es)
             sd == scaled_date(e.date, group_by)
             inner == IF e.category \in DOMAIN map
                      THEN map[e.category] ELSE EmptyMap
             sum == IF sd \in DOMAIN inner THEN inner[sd] ELSE 0
             inner2 == MapPut(inner, sd, sum + e.cost)
         IN  SumInto_unfiltered(MapPut(map, e.category, inner2), Tail(es),
                                group_by, categories)

RECURSIVE SumInto(_, _, _, _)
\* the loop of cost_map over the entries, in stored order
SumInto(map, es, group_by, categories) ==
    IF es = <<>> THEN map
    ELSE LET e == Head(es)
         IN  IF e.category \notin ToSet(categories)
             THEN SumInto(map, Tail(es), group_by, categories)
             ELSE LET sd == scaled_date(e.date, group_by)
                      inner == IF e.category \in DOMAIN map
                               THEN map[e.category] ELSE EmptyMap
                      sum == IF sd \in DOMAIN inner THEN inner[sd] ELSE 0
                      inner2 == MapPut(inner, sd, sum + e.cost)
                  IN  SumInto(MapPut(map, e.category, inner2), Tail(es),
                              group_by, categories)

cost_map(es, group_by, categories) ==
    IF es = <<>> THEN EmptyMap
    ELSE SumInto(zero_cost_map(es, categories, group_by), es, group_by, categories)

\* the body of monthly_cost is the constant 0.0
monthly_cost(es, category, date) == 0

(***************************************************************************)
(* Entry::to_csv_string and the text forms of its fields                   *)
(***************************************************************************)
DigitChars == <<"0", "1", "2", "3", "4", "5", "6", "7", "8", "9">>

RECURSIVE Digits(_)
\* the decimal digits of a natural number
Digits(n) == IF n < 10 THEN <<DigitChars[n + 1]>>
             ELSE Digits(n \div 10) \o <<DigitChars[(n % 10) + 1]>>

RECURSIVE ZeroPad(_, _)
ZeroPad(s, width) == IF Len(s) >= width THEN s ELSE ZeroPad(<<"0">> \o s, width)

\* Display of NaiveDate: %Y-%m-%d
DateStr(date) ==
    ZeroPad(Digits(date.year), 4) \o <<"-">> \o ZeroPad(Digits(date.month), 2)
        \o <<"-">> \o ZeroPad(Digits(date.day), 2)

\* {:?} of an f32 holding a whole amount: "4.0", "1500.0"
CostStr(cost) == Digits(cost) \o <<".", "0">>

to_csv_string(e) ==
    e.name \o <<",">> \o DateStr(e.date) \o <<",">> \o CostStr(e.cost)
        \o <<",">> \o e.category

(***************************************************************************)
(* Result and Option values                                                *)
(***************************************************************************)
Ok(v) == [ok |-> TRUE, val |-> v]
Err == [ok |-> FALSE, val |-> <<>>]

None == {}
Some(v) == {v}
Unwrap(o) == CHOOSE v \in o : TRUE

(***************************************************************************)
(* csvadapter: reading                                                     *)
(***************************************************************************)
RECURSIVE SplitOn(_, _, _)
\* the fields of a line: `cur` is the field being read
SplitOn(s, sep, cur) ==
    IF s = <<>> THEN <<cur>>
    ELSE IF Head(s) = sep THEN <<cur>> \o SplitOn(Tail(s), sep, <<>>)
    ELSE SplitOn(Tail(s), sep, Append(cur, Head(s)))

IsDigit(c) == \E i \in 1..10 : DigitChars[i] = c
DigitValue(c) == (CHOOSE i \in 1..10 : DigitChars[i] = c) - 1
AllDigits(s) == s # <<>> /\ \A i \in 1..Len(s) : IsDigit(s[i])

RECURSIVE ParseNat(_, _)
ParseNat(s, acc) ==
    IF s = <<>> THEN acc ELSE ParseNat(Tail(s), 10 * acc + DigitValue(Head(s)))

\* NaiveDate::parse_from_str(field, "%Y-%m-%d")
parse_from_str(field) ==
    LET parts == SplitOn(field, "-", <<>>)
    IN  IF Len(parts) # 3 \/ \E i \in 1..3 : ~AllDigits(parts[i]) THEN Err
        ELSE IF Len(parts[2]) > 2 \/ Len(parts[3]) > 2 THEN Err
        ELSE LET y == ParseNat(parts[1], 0)
                 m == ParseNat(parts[2], 0)
                 d == ParseNat(parts[3], 0)
             IN  IF m \in 1..12 /\ d >= 1 /\ d <= DaysInMonth(y, m)
                 THEN Ok(NaiveDate(y, m, d)) ELSE Err

\* str::parse::<f32> on the texts of the model, which carry whole amounts:
\* [-]digits[.digits]; the value is [neg, value]
parse_f32(field) ==
    LET neg == field # <<>> /\ Head(field) = "-"
        body == IF neg THEN Tail(field) ELSE field
        parts == SplitOn(body, ".", <<>>)
    IN  IF Len(parts) = 1 /\ AllDigits(parts[1])
        THEN Ok([neg |-> neg, value |-> ParseNat(parts[1], 0)])
        ELSE IF Len(parts) = 2 /\ AllDigits(parts[1])
                  /\ (parts[2] = <<>> \/ AllDigits(parts[2]))
        THEN Ok([neg |-> neg, value |-> ParseNat(parts[1], 0)])
        ELSE Err

\* Cost::try_from(f32): value >= 0.0
Cost_try_from(f) == IF f.neg /\ f.value # 0 THEN Err ELSE Ok(f.value)

\* the fixed set of display strings Category::from_str matches exactly
CategoryDisplayStrings == {Misc, Rent, Food}

Category_from_str(field) == IF field \in CategoryDisplayStrings THEN Ok(field) ELSE Err

\* impl TryFrom<StringRecord> for Entry
Entry_try_from(record) ==
    IF Len(record) # 4 THEN Err
    ELSE LET date == parse_from_str(record[2])
             cost == parse_f32(record[3])
             category == Category_from_str(record[4])
         IN  IF ~date.ok \/ ~cost.ok \/ ~category.ok THEN Err
             ELSE IF ~Cost_try_from(cost.val).ok THEN Err
             ELSE Ok(Entry(record[1], Cost_try_from(cost.val).val, date.val,
                           category.val))

RECURSIVE FileText(_)
\* the text of a file: every line followed by its terminator
FileText(content) ==
    IF content = <<>> THEN <<>>
    ELSE Head(content) \o <<"\n">> \o FileText(Tail(content))

\* the least position of a set of positions
FirstOf(positions) == CHOOSE p \in positions : \A q \in positions : p <= q

\* the positions of a set, in increasing order
InOrder(positions) ==
    [k \in 1..Cardinality(positions) |->
        CHOOSE p \in positions : Cardinality({q \in positions : q < p}) = k - 1]

IsQuote(text, p) == p \in 1..Len(text) /\ text[p] = "\""

\* the first position of the run of quotes that holds position p, looking no
\* further back than position from
RunStart(text, from, p) ==
    FirstOf({q \in from..p : \A r \in q..p : IsQuote(text, r)})

\* the end of an unquoted stretch that begins at i: the position of the next
\* delimiter or terminator, or one past the text
FieldEnd(text, i) ==
    FirstOf({j \in i..Len(text) : text[j] \in {",", "\n"}} \union {Len(text) + 1})

\* the closing quote of the quoted field opened at i: the end of the first run
\* of quotes of odd length (a doubled quote is an escaped quote), or one past
\* the text when the field is never closed
ClosingQuote(text, i) ==
    FirstOf({p \in (i + 1)..Len(text) :
                /\ IsQuote(text, p) /\ ~IsQuote(text, p + 1)
                /\ (p - RunStart(text, i + 1, p)) % 2 = 0}
            \union {Len(text) + 1})

\* the characters of the text at the positions given
Pick(text, at) == [k \in 1..Len(at) |-> text[at[k]]]

\* the data between the quotes: of every doubled quote one quote is kept
Unescaped(text, i, close) ==
    Pick(text, InOrder({p \in (i + 1)..(close - 1) :
                           \/ ~IsQuote(text, p)
                           \/ (p - RunStart(text, i + 1, p)) % 2 = 1}))

\* a field and the position where it ends
unquoted_field(text, i, end) == [field |-> SubSeq(text, i, end - 1), end |-> end]

\* what follows the closing quote up to the next delimiter is data too
quoted_field(text, i, close, end) ==
    [field |-> Unescaped(text, i, close) \o SubSeq(text, close + 1, end - 1),
     end |-> end]

after_quote(text, i, close) ==
    quoted_field(text, i, close,
                 IF close > Len(text) THEN close ELSE FieldEnd(text, close + 1))

\* the field of the text that begins at position i, and the position where
\* it ends.  A field that begins with the quote is a quoted field: delimiters
\* and terminators inside it are data, up to the closing quote.  A quote
\* inside an unquoted field is data.
read_field(text, i) ==
    IF IsQuote(text, i) THEN after_quote(text, i, ClosingQuote(text, i))
    ELSE unquoted_field(text, i, FieldEnd(text, i))

RECURSIVE read_record(_, _, _, _, _)
RECURSIVE end_field(_, _, _, _)
\* the field f was read: a delimiter continues the record, a terminator or the
\* end of the text ends it
end_field(text, f, record, records) ==
    IF f.end > Len(text) THEN Append(records, Append(record, f.field))
    ELSE IF text[f.end] = ","
    THEN read_record(text, f.end + 1, TRUE, Append(record, f.field), records)
    ELSE read_record(text, f.end + 1, FALSE, <<>>,
                     Append(records, Append(record, f.field)))

\* the csv reader over the text from position i, with the defaults of
\* ReaderBuilder: delimiter ',', terminator newline, quote '"', doubled
\* quotes on.  `started` says that a record is being read (a delimiter was
\* just passed); empty lines are skipped.
read_record(text, i, started, record, records) ==
    IF i > Len(text)
    THEN IF started THEN Append(records, Append(record, <<>>)) ELSE records
    ELSE IF ~started /\ text[i] = "\n"
    THEN read_record(text, i + 1, FALSE, <<>>, records)
    ELSE end_field(text, read_field(text, i), record, records)

\* a record whose field count differs from the first record's is an Err item
\* (the reader is not flexible)
equal_lengths(recs) ==
    [i \in 1..Len(recs) |-> IF Len(recs[i]) = Len(recs[1]) THEN Ok(recs[i]) ELSE Err]

\* csv::Reader::records with has_headers(false): the records of the text
csv_records(content) ==
    equal_lengths(read_record(FileText(content), 1, FALSE, <<>>, <<>>))

\* .filter_map(|result| result.ok()).map(Entry::try_from).collect()
read_entries_from_reader(content) ==
    LET oks == SelectSeq(csv_records(content), LAMBDA r : r.ok)
        parsed == [i \in 1..Len(oks) |-> Entry_try_from(oks[i].val)]
    IN  IF \E i \in 1..Len(parsed) : ~parsed[i].ok THEN Err
        ELSE Ok([i \in 1..Len(parsed) |-> parsed[i].val])

(***************************************************************************)
(* The file system and csvadapter::write_entries_to_csv                    *)
(***************************************************************************)
NoFile == [exists |-> FALSE, content |-> <<>>]
File(content) == [exists |-> TRUE, content |-> content]

PathBuf(stem, ext) == [stem |-> stem, ext |-> ext]

with_extension(path, ext) == [path EXCEPT !.ext = ext]

\* read_entries_from_file: File::open, then read_entries_from_reader
read_entries_from_file(files, file_path) ==
    IF ~files[file_path].exists THEN Err
    ELSE read_entries_from_reader(files[file_path].content)

\* variant of csvadapter_write_entries_to_csv: the file is opened for
\* appending, never truncated
csvadapter_write_appending(files, es, file_path, fail) ==
    LET backup_path == with_extension(file_path, "backup")
        f1 == [files EXCEPT ![backup_path] = File(<<>>)]
        lines == [i \in 1..Len(es) |-> to_csv_string(es[i])]
    IN  IF ~files[file_path].exists THEN [fs |-> f1, result |-> Err]
        ELSE [fs |-> [f1 EXCEPT ![file_path] = File(files[file_path].content \o lines)],
              result |-> Ok(<<>>)]

\* variant of csvadapter_write_entries_to_csv: the backup is best-effort,
\* its failure is reported and the file is written all the same
csvadapter_write_best_effort(files, es, file_path, fail) ==
    LET lines == [i \in 1..Len(es) |-> to_csv_string(es[i])]
    IN  [fs |-> [files EXCEPT ![file_path] = File(lines)],
         result |-> IF fail[1] \in {"backup", "copy"}
                    THEN [ok |-> FALSE, val |-> fail[1]] ELSE Ok(<<>>)]

\* the io::Error of the I/O step that failed
IoError(step) == [ok |-> FALSE, val |-> step]

\* `fail` names the I/O step that fails, if any: <<step, lines written before>>
\* with step in none / backup / copy / copy_trunc / create / write; a failure
\* of the writeln of a line the collection does not have never happens
csvadapter_write_entries_to_csv(files, es, file_path, fail) ==
    LET backup_path == with_extension(file_path, "backup")
        \* File::create(&backup_path) creates or truncates the backup
        f1 == [files EXCEPT ![backup_path] = File(<<>>)]
        \* fs::copy(file_path, dest_path) with dest_path = file_path: the
        \* destination is opened truncating, so the file is left empty
        f2 == [f1 EXCEPT ![file_path] = File(<<>>)]
        lines == [i \in 1..Len(es) |-> to_csv_string(es[i])]
    IN  IF fail[1] = "backup" THEN [fs |-> files, result |-> IoError("backup")]
        ELSE IF ~files[file_path].exists \/ fail[1] = "copy"
        THEN [fs |-> f1, result |-> IoError("copy")]
        ELSE IF fail[1] \in {"copy_trunc", "create"}
        THEN [fs |-> f2, result |-> IoError(fail[1])]
        ELSE IF fail[1] = "write" /\ fail[2] < Len(lines)
        THEN [fs |-> [f2 EXCEPT ![file_path] = File(SubSeq(lines, 1, fail[2]))],
              result |-> IoError("write")]
        ELSE [fs |-> [f2 EXCEPT ![file_path] = File(lines)], result |-> Ok(<<>>)]

(***************************************************************************)
(* DataManager: every method maps the manager and the file system to       *)
(* [dm, fs, io]; io lists the outcome of each write-through it attempted:  *)
(* "skipped", "ok", or the step whose error was logged                     *)
(***************************************************************************)
DataManager_default ==
    [entries |-> <<>>, sort_by |-> "Date", active_file |-> None,
     plot_reset_next_frame |-> FALSE]

Outcome(dm, files, io) == [dm |-> dm, fs |-> files, io |-> io]

get_entries_iter(dm, reverse) ==
    IF reverse THEN [i \in 1..Len(dm.entries) |-> dm.entries[Len(dm.entries) + 1 - i]]
    ELSE dm.entries

\* variant of read_entries_from_csv: the entries read are sorted under the
\* active key
read_entries_from_csv_sorted(dm, files, file_path) ==
    LET result == read_entries_from_file(files, file_path)
        d1 == IF result.ok
              THEN [dm EXCEPT !.entries = slice_sort_by(result.val, dm.sort_by),
                              !.plot_reset_next_frame = TRUE]
              ELSE dm
        d2 == IF d1.active_file # Some(file_path)
              THEN [d1 EXCEPT !.active_file = Some(file_path)] ELSE d1
    IN  Outcome(d2, files, <<>>)

read_entries_from_csv(dm, files, file_path) ==
    LET result == read_entries_from_file(files, file_path)
        d1 == IF result.ok
              THEN [dm EXCEPT !.entries = result.val, !.plot_reset_next_frame = TRUE]
              ELSE dm
        d2 == IF d1.active_file # Some(file_path)
              THEN [d1 EXCEPT !.active_file = Some(file_path)] ELSE d1
    IN  Outcome(d2, files, <<>>)

write_entries_to_csv(dm, files, file_path, fail) ==
    LET target == IF file_path # None THEN file_path ELSE dm.active_file
    IN  IF target = None THEN Outcome(dm, files, <<"skipped">>)
        ELSE LET path == Unwrap(target)
                 w == csvadapter_write_entries_to_csv(files, dm.entries, path, fail)
                 d1 == IF dm.active_file # Some(path)
                       THEN [dm EXCEPT !.active_file = Some(path)] ELSE dm
             IN  Outcome(d1, w.fs, <<IF w.result.ok THEN "ok" ELSE w.result.val>>)

data_changed(dm, files, fail) == write_entries_to_csv(dm, files, None, fail)

\* variant of sort_entries: the key is recorded, the collection is not sorted
sort_entries_key_only(dm, files, by) ==
    Outcome([dm EXCEPT !.sort_by = by], files, <<>>)

\* variant of sort_entries: a sort that changes the key calls data_changed
sort_entries_persisting(dm, files, by) ==
    LET sorted == [dm EXCEPT !.entries = slice_sort_by(dm.entries, by)]
    IN  IF sorted.sort_by # by
        THEN data_changed([sorted EXCEPT !.sort_by = by], files, <<"none", 0>>)
        ELSE Outcome(sorted, files, <<>>)

sort_entries(dm, files, by) ==
    LET sorted == [dm EXCEPT !.entries = slice_sort_by(dm.entries, by)]
        d1 == IF sorted.sort_by # by THEN [sorted EXCEPT !.sort_by = by] ELSE sorted
    IN  Outcome(d1, files, <<>>)

\* variant of add_entry: the new entry stays at the end
add_entry_unsorted(dm, files, entry, fail) ==
    data_changed([dm EXCEPT !.entries = Append(dm.entries, entry)], files, fail)

\* variant of add_entry: a failed write-through undoes the insertion
add_entry_undone_on_error(dm, files, entry, fail) ==
    LET pushed == [dm EXCEPT !.entries = Append(dm.entries, entry)]
        s == sort_entries(pushed, files, pushed.sort_by)
        w == data_changed(s.dm, s.fs, fail)
    IN  IF w.io \in {<<"ok">>, <<"skipped">>} THEN Outcome(w.dm, w.fs, w.io)
        ELSE Outcome([w.dm EXCEPT !.entries = dm.entries], w.fs, w.io)

add_entry(dm, files, entry, fail) ==
    LET pushed == [dm EXCEPT !.entries = Append(dm.entries, entry)]
        s == sort_entries(pushed, files, pushed.sort_by)
        w == data_changed(s.dm, s.fs, fail)
    IN  Outcome(w.dm, w.fs, s.io \o w.io)

\* Vec::remove(index), index counted from 0
VecRemove(v, index) == SubSeq(v, 1, index) \o SubSeq(v, index + 2, Len(v))

remove_entry_pos(dm, files, index, fail) ==
    data_changed([dm EXCEPT !.entries = VecRemove(dm.entries, index)], files, fail)

(***************************************************************************)
(* Entries (the entry view)                                                *)
(***************************************************************************)
Entries_default ==
    [sort_by |-> "Date", sort_order |-> "Increasing", allow_deletion |-> FALSE]

\* variant of translate_index: the display index is used as it is
translate_index_untranslated(view, dm, index) == index

\* the index scroll_area hands to remove_entry_pos for a display index
translate_index(view, dm, index) ==
    IF view.sort_order = "Decreasing" THEN Len(dm.entries) - 1 - index ELSE index

RECURSIVE delete_marked_lowest_first(_, _, _, _, _)
\* variant of delete_marked: to_delete.iter(), the lowest display index first
delete_marked_lowest_first(view, dm, files, to_delete, fails) ==
    IF to_delete = <<>> THEN Outcome(dm, files, <<>>)
    ELSE LET idx == translate_index(view, dm, to_delete[1])
             r == remove_entry_pos(dm, files, idx, fails[1])
             rest == delete_marked_lowest_first(view, r.dm, r.fs, Tail(to_delete), fails)
         IN  Outcome(rest.dm, rest.fs, r.io \o rest.io)

RECURSIVE delete_marked(_, _, _, _, _)
\* the deletion loop of scroll_area: to_delete.iter().rev(); fails[k] is the
\* I/O failure met by the write-through of the k-th marked index
delete_marked(view, dm, files, to_delete, fails) ==
    IF to_delete = <<>> THEN Outcome(dm, files, <<>>)
    ELSE LET k == Len(to_delete)
             idx == translate_index(view, dm, to_delete[k])
             r == remove_entry_pos(dm, files, idx, fails[k])
             rest == delete_marked(view, r.dm, r.fs, Front(to_delete), fails)
         IN  Outcome(rest.dm, rest.fs, r.io \o rest.io)

scroll_area(view, dm, files, to_delete, fails) ==
    delete_marked(view, dm, files, to_delete, fails)

(***************************************************************************)
(* CategoryName and CategoryManager                                        *)
(***************************************************************************)
LowerLetters == <<"a", "b", "c", "d", "e", "f", "g", "h", "i", "j", "k", "l", "m",
                  "n", "o", "p", "q", "r", "s", "t", "u", "v", "w", "x", "y", "z">>
UpperLetters == <<"A", "B", "C", "D", "E", "F", "G", "H", "I", "J", "K", "L", "M",
                  "N", "O", "P", "Q", "R", "S", "T", "U", "V", "W", "X", "Y", "Z">>

\* char::is_alphabetic, on the characters of the model
is_alphabetic(c) == \E i \in 1..26 : c = LowerLetters[i] \/ c = UpperLetters[i]

\* char::is_whitespace, on the characters of the model
is_whitespace(c) == c \in {" ", "\t"}

\* char::to_lowercase
char_to_lowercase(c) ==
    IF \E i \in 1..26 : c = UpperLetters[i]
    THEN LowerLetters[CHOOSE i \in 1..26 : c = UpperLetters[i]]
    ELSE c

\* str::to_lowercase
to_lowercase(s) == [i \in 1..Len(s) |-> char_to_lowercase(s[i])]

RECURSIVE trim_start(_)
trim_start(s) ==
    IF s # <<>> /\ is_whitespace(Head(s)) THEN trim_start(Tail(s)) ELSE s

RECURSIVE trim_end(_)
trim_end(s) ==
    IF s # <<>> /\ is_whitespace(s[Len(s)]) THEN trim_end(SubSeq(s, 1, Len(s) - 1))
    ELSE s

\* str::trim
trim(s) == trim_end(trim_start(s))

\* CategoryError::Invalid(text) and CategoryError::Duplicate(text)
CategoryError(kind, text) == [ok |-> FALSE, val |-> <<kind>> \o text]

\* variant of CategoryName_from_str: the stored name is trimmed
CategoryName_from_str_trimmed(s) ==
    IF trim(s) # <<>> /\ \A i \in 1..Len(s) : is_alphabetic(s[i]) \/ is_whitespace(s[i])
    THEN Ok(trim(to_lowercase(s)))
    ELSE CategoryError("Invalid", s)

\* variant of CategoryName_from_str: a name of whitespace only is accepted
CategoryName_from_str_blank_accepted(s) ==
    IF s # <<>> /\ \A i \in 1..Len(s) : is_alphabetic(s[i]) \/ is_whitespace(s[i])
    THEN Ok(to_lowercase(s))
    ELSE CategoryError("Invalid", s)

\* impl FromStr for CategoryName
CategoryName_from_str(s) ==
    IF trim(s) # <<>> /\ \A i \in 1..Len(s) : is_alphabetic(s[i]) \/ is_whitespace(s[i])
    THEN Ok(to_lowercase(s))
    ELSE CategoryError("Invalid", s)

\* impl Display for CategoryName: the string it wraps
CategoryName_to_string(name) == name

\* impl Default for CategoryInfo: no limit, displayed
CategoryInfo_default == [limit |-> None, displayed |-> TRUE]

\* variant of CategoryManager_add: a duplicate is reported, and the category
\* it names is inserted anew
CategoryManager_add_replacing(categories, category) ==
    LET new_category == CategoryName_from_str(to_lowercase(category))
    IN  IF ~new_category.ok THEN [categories |-> categories, result |-> new_category]
        ELSE IF new_category.val \in DOMAIN categories
        THEN [categories |-> MapPut(categories, new_category.val, CategoryInfo_default),
              result |-> CategoryError("Duplicate",
                                       CategoryName_to_string(new_category.val))]
        ELSE [categories |-> MapPut(categories, new_category.val, CategoryInfo_default),
              result |-> Ok(<<>>)]

\* CategoryManager::add: [categories, result]
CategoryManager_add(categories, category) ==
    LET new_category == CategoryName_from_str(to_lowercase(category))
    IN  IF ~new_category.ok THEN [categories |-> categories, result |-> new_category]
        ELSE IF new_category.val \in DOMAIN categories
        THEN [categories |-> categories,
              result |-> CategoryError("Duplicate",
                                       CategoryName_to_string(new_category.val))]
        ELSE [categories |-> MapPut(categories, new_category.val, CategoryInfo_default),
              result |-> Ok(<<>>)]

RECURSIVE append_categories_overwriting(_, _)
\* variant of append_categories: a name that is registered already is
\* inserted anew
append_categories_overwriting(categories, names) ==
    IF names = {} THEN [categories |-> categories, result |-> Ok(<<>>)]
    ELSE LET n == CHOOSE x \in names : TRUE
         IN  append_categories_overwriting(
                 MapPut(categories, n, CategoryInfo_default), names \ {n})

RECURSIVE append_categories(_, _)
\* CategoryManager::append_categories over a set of names; the names of
\* entries are valid, so no add returns Invalid and the order of the set is
\* of no consequence
append_categories(categories, names) ==
    IF names = {} THEN [categories |-> categories, result |-> Ok(<<>>)]
    ELSE LET n == CHOOSE x \in names : TRUE
             r == CategoryManager_add(categories, CategoryName_to_string(n))
         IN  IF ~r.result.ok /\ r.result.val[1] # "Duplicate"
             THEN [categories |-> r.categories, result |-> r.result]
             ELSE append_categories(r.categories, names \ {n})

\* CategoryManager::categories: the keys
categories_keys(categories) == DOMAIN categories

\* egui::DragValue with clamp_range(0.0..=1_000_000.0)
clamp_range(value) == IF value < 0 THEN 0 ELSE IF value > 1000000 THEN 1000000 ELSE value

\* Option::unwrap_or
unwrap_or(o, default) == IF o = None THEN default ELSE Unwrap(o)

\* variant of limits_ui: the value displayed is stored as it is
limits_ui_zero_kept(categories, category, dragged) ==
    [c \in DOMAIN categories |->
        [categories[c] EXCEPT !.limit =
            IF c = category THEN Some(clamp_range(dragged)) ELSE @]]

\* CategoryManager::limits_ui, one frame: every category's limit is shown as
\* a number, 0 for none; the number of `category` is dragged to `dragged`;
\* the number shown is stored, 0 as none
limits_ui(categories, category, dragged) ==
    [c \in DOMAIN categories |->
        [categories[c] EXCEPT !.limit =
            LET display_value == IF c = category THEN clamp_range(dragged)
                                 ELSE unwrap_or(@, 0)
            IN  IF display_value = 0 THEN None ELSE Some(display_value)]]

\* CategoryManager::editor_ui, Delete: self.categories.remove(&category)
categories_remove(categories, category) ==
    [c \in (DOMAIN categories) \ {category} |-> categories[c]]

\* variant of check_limit: the limit is evaluated whatever the entry's month
check_limit_any_month(categories, enabled, entry, es, today) ==
    IF ~enabled THEN "disabled"
    ELSE IF entry.category \notin DOMAIN categories THEN "panic"
    ELSE IF categories[entry.category].limit = None THEN "no limit"
    ELSE IF monthly_cost(es, entry.category, entry.date)
                >= Unwrap(categories[entry.category].limit)
    THEN "exceeded" ELSE "under"

\* CategoryManager::check_limit: what it does.  self.categories[&cat_name]
\* panics when the category is not a key.
check_limit(categories, enabled, entry, es, today) ==
    IF ~enabled THEN "disabled"
    ELSE IF entry.category \notin DOMAIN categories THEN "panic"
    ELSE IF categories[entry.category].limit = None THEN "no limit"
    ELSE IF today.month = entry.date.month /\ today.year = entry.date.year
    THEN IF monthly_cost(es, entry.category, entry.date)
                >= Unwrap(categories[entry.category].limit)
         THEN "exceeded" ELSE "under"
    ELSE "skipped"

(***************************************************************************)
(* The inputs of the model                                                 *)
(***************************************************************************)
NameX == <<"x">>
NameY == <<"y">>

Jan20 == NaiveDate(2024, 1, 20)
Feb05 == NaiveDate(2024, 2, 5)

\* the entries the add-entry form can build
EntryUniverse ==
    {Entry(NameX, c, d, Misc) : c \in {1, 2}, d \in {Jan20, Feb05}}

PathA == PathBuf("a", "csv")
PathB == PathBuf("b", "csv")
CsvPaths == {PathA}
AllPaths == LET csv == {PathA, PathB} IN csv \cup {with_extension(p, "backup") : p \in csv}

\* the files the file dialog can return: a.csv, and in the runs "import" b.csv
PickablePaths == IF pc = "import" THEN {PathA, PathB} ELSE CsvPaths

\* what the user's file a.csv may hold when the program starts
InitContents ==
    { \* two records, ordered neither by date nor by cost
      <<to_csv_string(Entry(NameX, 2, Feb05, Misc)),
        to_csv_string(Entry(NameX, 1, Jan20, Misc))>>,
      \* a record followed by a line that is no record of 4 fields
      <<to_csv_string(Entry(NameX, 1, Feb05, Misc)), <<"b", "a", "d">>>>,
      \* a record whose date does not parse
      <<<<"x", ",", "n", "o", ",", "1", ".", "0", ",">> \o Misc>> }

NoFail == <<"none", 0>>

\* the I/O step of a write-through that fails, if any: no step fails in the
\* runs "run"; any step may in the runs "faulty"
IOFails ==
    IF pc = "faulty"
    THEN {NoFail} \cup {<<a, 0>> : a \in {"backup", "copy", "copy_trunc", "create"}}
            \cup {<<"write", k>> : k \in 0..(MaxFaultyEntries - 1)}
    ELSE {NoFail}

Running == pc \in {"run", "faulty", "import"}

\* the add-entry form is not used on a collection of this length
MaxLen == IF pc \in {"faulty", "import", "app"} THEN MaxFaultyEntries ELSE MaxEntries

RECURSIVE AscendingSeq(_)
\* the elements of a set of numbers in ascending order
AscendingSeq(S) ==
    IF S = {} THEN <<>>
    ELSE LET m == CHOOSE x \in S : \A y \in S : y <= x
         IN  Append(AscendingSeq(S \ {m}), m)

(***************************************************************************)
(* The state machine                                                       *)
(***************************************************************************)
DM == [entries |-> entries, sort_by |-> sort_by, active_file |-> active_file,
       plot_reset_next_frame |-> plot_reset_next_frame]

\* the handler's outcome r becomes the next state
Apply(r, kind) ==
    /\ entries' = r.dm.entries
    /\ sort_by' = r.dm.sort_by
    /\ active_file' = r.dm.active_file
    /\ plot_reset_next_frame' = r.dm.plot_reset_next_frame
    /\ fs' = r.fs
    /\ op' = [kind |-> kind, io |-> r.io]

\* #[derive(Default)] of CategoryManager: no category registered
CategoryManager_default == EmptyMap

\* impl Default for AddEntry: no category chosen
AddEntry_default == [category |-> <<>>]

\* Arc::new(Mutex::new(None)): an unlocked mutex over an empty slot
Mutex_new(value) == [locked |-> FALSE, value |-> value]

\* impl Default for App, outside DataManager and Entries: warnings off (the
\* derived default of bool), an empty form, an empty inbox, no future spawned
InitApp ==
    /\ spending_warnings_enabled = FALSE
    /\ add_entry_view = AddEntry_default
    /\ file_pick = Mutex_new(None)
    /\ tasks = <<>>

NoOp == [kind |-> "init", io |-> <<>>]
NoQuery == [kind |-> "none", args |-> <<>>, result |-> <<>>]

InitDefaults ==
    /\ entries = DataManager_default.entries
    /\ sort_by = DataManager_default.sort_by
    /\ active_file = DataManager_default.active_file
    /\ plot_reset_next_frame = DataManager_default.plot_reset_next_frame
    /\ entry_view = [Entries_default EXCEPT !.sort_by = DataManager_default.sort_by]
    /\ op = NoOp
    /\ query = NoQuery
    /\ cat_mgr = CategoryManager_default
    /\ InitApp

\* the user's file exists, its backup does not
InitFs == {[p \in AllPaths |-> IF p = PathA THEN File(content) ELSE NoFile] :
              content \in InitContents}

Init ==
    /\ InitDefaults
    /\ pc = "run"
    /\ fs \in InitFs

InitFaulty ==
    /\ InitDefaults
    /\ pc = "faulty"
    /\ fs \in InitFs

\* AddEntry::ui, "Add" clicked: backend.add_entry(entry)
AddEntryOf(e) ==
    /\ Running
    /\ Len(entries) < MaxLen
    /\ \E fail \in IOFails : Apply(add_entry(DM, fs, e, fail), "add_entry")
    /\ UNCHANGED <<entry_view, query, pc, cat_mgr, app_vars>>

\* the entries the form builds in a run: two of them in the runs "faulty"
\* and "import", one cheaper and later than the other
FormEntries ==
    IF pc \in {"faulty", "import"}
    THEN {Entry(NameX, 2, Jan20, Misc), Entry(NameX, 1, Feb05, Misc)}
    ELSE EntryUniverse

AddEntry == \E e \in FormEntries : AddEntryOf(e)

\* DataManager::sort_entries called with any key
SortEntriesBy(by) ==
    /\ Running
    /\ Apply(sort_entries(DM, fs, by), "sort_entries")
    /\ UNCHANGED <<entry_view, query, pc, cat_mgr, app_vars>>

SortEntries == \E by \in SortBy : SortEntriesBy(by)

\* Entries::controls, another sort key selected in the "sort-by" box
ControlsSortByTo(by) ==
    /\ Running
    /\ by # entry_view.sort_by
    /\ entry_view' = [entry_view EXCEPT !.sort_by = by]
    /\ Apply(sort_entries(DM, fs, by), "controls_sort_by")
    /\ UNCHANGED <<query, pc, cat_mgr, app_vars>>

ControlsSortBy == \E by \in SortBy : ControlsSortByTo(by)

\* Entries::controls, another order selected in the "sort-order" box
ControlsSortOrder ==
    /\ Running
    /\ \E order \in SortOrder :
          /\ order # entry_view.sort_order
          /\ entry_view' = [entry_view EXCEPT !.sort_order = order]
    /\ op' = [kind |-> "controls_sort_order", io |-> <<>>]
    /\ UNCHANGED <<entries, sort_by, active_file, plot_reset_next_frame, fs, query, pc, cat_mgr, app_vars>>

\* Entries::controls, "Allow Deletion" clicked
ControlsAllowDeletion ==
    /\ Running
    /\ entry_view' = [entry_view EXCEPT !.allow_deletion = ~entry_view.allow_deletion]
    /\ op' = [kind |-> "controls_allow_deletion", io |-> <<>>]
    /\ UNCHANGED <<entries, sort_by, active_file, plot_reset_next_frame, fs, query, pc, cat_mgr, app_vars>>

\* Entries::scroll_area with "Delete" clicked on the display rows to_delete
\* (display indices from 0, in the order the rows are drawn)
ScrollAreaOn(to_delete) ==
    /\ Running
    /\ entry_view.allow_deletion
    /\ to_delete # <<>>
    /\ \A k \in 1..Len(to_delete) : to_delete[k] < Len(entries)
    /\ \E fails \in [1..Len(to_delete) -> IOFails] :
          Apply(scroll_area(entry_view, DM, fs, to_delete, fails), "scroll_area")
    /\ UNCHANGED <<entry_view, query, pc, cat_mgr, app_vars>>

\* in the runs "faulty" a frame deletes one row, the case the code expects
\* ("It should only be 1 unless the user is very fast")
ScrollArea ==
    \E marked \in SUBSET (0..(Len(entries) - 1)) :
        /\ pc = "faulty" => Cardinality(marked) = 1
        /\ ScrollAreaOn(AscendingSeq(marked))

\* DataManager::read_entries_from_csv
ReadEntriesFromCsvOf(file_path) ==
    /\ Running
    /\ Apply(read_entries_from_csv(DM, fs, file_path), "read_entries_from_csv")
    /\ UNCHANGED <<entry_view, query, pc, cat_mgr, app_vars>>

ReadEntriesFromCsv == \E file_path \in PickablePaths : ReadEntriesFromCsvOf(file_path)

\* MenuBar::export_button: write_entries_to_csv(pick_file())
ExportButton ==
    /\ Running
    /\ \E file \in {None} \cup {Some(p) : p \in PickablePaths}, fail \in IOFails :
          Apply(write_entries_to_csv(DM, fs, file, fail), "write_entries_to_csv")
    /\ UNCHANGED <<entry_view, query, pc, cat_mgr, app_vars>>

Next ==
    \/ AddEntry
    \/ SortEntries
    \/ ControlsSortBy
    \/ ControlsSortOrder
    \/ ControlsAllowDeletion
    \/ ScrollArea
    \/ ReadEntriesFromCsv
    \/ ExportButton

Spec == Init /\ [][Next]_vars

\* the handlers that reach the file system, and those that enable them
NextFaulty ==
    \/ AddEntry
    \/ SortEntries
    \/ ControlsAllowDeletion
    \/ ScrollArea
    \/ ReadEntriesFromCsv
    \/ ExportButton

\* the same program on a file system whose operations may fail
SpecFaulty == InitFaulty /\ [][NextFaulty]_vars

(***************************************************************************)
(* Import (App::import_entries_file, App::import_entry_vec) and the chart  *)
(* renderer that consumes the reset-view flag                              *)
(***************************************************************************)
\* DataManager::set_entries: the collection is replaced by the one given
set_entries(dm, es) == [dm EXCEPT !.entries = es]

create_unique_category_set(es) == {es[i].category : i \in 1..Len(es)}

\* App::import_entry_vec on (data_mgr, cat_mgr.categories)
import_entry_vec(dm, categories, es) ==
    LET unique_categories == create_unique_category_set(es)
        d1 == set_entries(dm, es)
        appended == append_categories(categories, unique_categories)
    IN  [dm |-> [d1 EXCEPT !.plot_reset_next_frame = TRUE],
         categories |-> appended.categories, io |-> <<>>]

\* App::import_entries_file
import_entries_file(dm, categories, files, file_path) ==
    LET read == read_entries_from_file(files, file_path)
        d1 == IF dm.active_file # Some(file_path)
              THEN [dm EXCEPT !.active_file = Some(file_path)] ELSE dm
    IN  IF ~read.ok THEN [dm |-> dm, categories |-> categories, io |-> <<"read failed">>]
        ELSE import_entry_vec(d1, categories, read.val)

\* variant of Graph::plot: the view is reset, the flag is not cleared
Graph_plot_flag_kept(data_loaded) == [data_loaded |-> data_loaded, reset |-> data_loaded]

\* Graph::plot on the flag: [data_loaded, reset]
Graph_plot(data_loaded) == [data_loaded |-> FALSE, reset |-> data_loaded]

\* what a.csv and b.csv may hold in the runs "import": a.csv two records in
\* no order; b.csv a record and then a bad date, or a short line, or nothing
ImportFs ==
    LET good == <<to_csv_string(Entry(NameX, 2, Feb05, Rent)),
                  to_csv_string(Entry(NameX, 1, Jan20, Misc))>>
        first == to_csv_string(Entry(NameY, 1, Feb05, Misc))
        bad == { File(<<first, <<"y", ",", "n", "o", ",", "1", ".", "0", ",">> \o Misc>>),
                 File(<<first, <<"b", "a", "d">>>>),
                 NoFile }
    IN  {[p \in AllPaths |-> IF p = PathA THEN File(good)
                             ELSE IF p = PathB THEN b ELSE NoFile] : b \in bad}

InitImport ==
    /\ InitDefaults
    /\ pc = "import"
    /\ fs \in ImportFs

\* MenuBar::import_button: app.import_entries_file(file_path)
ImportEntriesFileOf(file_path) ==
    /\ pc = "import"
    /\ LET r == import_entries_file(DM, cat_mgr, fs, file_path)
       IN  /\ Apply(Outcome(r.dm, fs, r.io), "import_entries_file")
           /\ cat_mgr' = r.categories
    /\ UNCHANGED <<entry_view, query, pc, app_vars>>

ImportEntriesFile == \E file_path \in PickablePaths : ImportEntriesFileOf(file_path)

\* Graph::ui: the chart is drawn
GraphUi ==
    /\ pc = "import"
    /\ LET r == Graph_plot(plot_reset_next_frame)
       IN  /\ plot_reset_next_frame' = r.data_loaded
           /\ op' = [kind |-> "plot", io |-> IF r.reset THEN <<"reset">> ELSE <<>>]
    /\ UNCHANGED <<entries, sort_by, active_file, entry_view, fs, query, pc, cat_mgr, app_vars>>

NextImport ==
    \/ ImportEntriesFile
    \/ ReadEntriesFromCsv
    \/ AddEntry
    \/ SortEntries
    \/ GraphUi

SpecImport == InitImport /\ [][NextImport]_vars

(***************************************************************************)
(* Writing and reading as functions of their input: the entries of the     *)
(* collection are written as text (csvadapter.rs:20-23), and a text is     *)
(* read back (read_entries_from_reader)                                    *)
(***************************************************************************)
\* the longest collection written, and the most lines of a text read
MaxCodecLen == 2

\* names: plain, beginning with the quote, ending with the quote, holding the
\* delimiter
CodecNames == { <<"x">>, <<"\"", "x">>, <<"x", "\"">>, <<"a", ",", "b">> }

CodecUniverse ==
    {Entry(n, c, Jan20, cat) : n \in CodecNames, c \in {0, 1}, cat \in {Misc, Rent}}

Line(name, date, cost, category) ==
    name \o <<",">> \o date \o <<",">> \o cost \o <<",">> \o category

\* the lines of the texts read: two records, and lines that are no record
CodecLines ==
    { to_csv_string(Entry(NameX, 1, Jan20, Misc)),
      to_csv_string(Entry(<<"y">>, 2, Feb05, Rent)),
      \* 1, 3 and 5 fields
      <<"b", "a", "d">>,
      NameX \o <<",">> \o DateStr(Jan20) \o <<",">> \o CostStr(1),
      to_csv_string(Entry(NameX, 1, Jan20, Misc)) \o <<",", "z">>,
      \* a date, a cost, a category that does not parse
      Line(NameX, <<"n", "o">>, CostStr(1), Misc),
      Line(NameX, DateStr(Jan20), <<"a", "b", "c">>, Misc),
      Line(NameX, DateStr(Jan20), <<"-">> \o CostStr(1), Misc),
      Line(NameX, DateStr(Jan20), CostStr(1), <<"M", "i", "s", "c">>) }

TextQuery(content) == [kind |-> "text", args |-> content, result |-> <<>>]

\* either a collection to write, or a text to read
InitCodec ==
    /\ sort_by = DataManager_default.sort_by
    /\ active_file = DataManager_default.active_file
    /\ plot_reset_next_frame = DataManager_default.plot_reset_next_frame
    /\ entry_view = Entries_default
    /\ fs = CHOOSE f \in InitFs : TRUE
    /\ op = NoOp
    /\ cat_mgr = CategoryManager_default
    /\ InitApp
    /\ pc = "codec"
    /\ \/ /\ entries \in SeqsUpTo(CodecUniverse, MaxCodecLen)
          /\ query = NoQuery
       \/ /\ entries = DataManager_default.entries
          /\ \E content \in SeqsUpTo(CodecLines, MaxCodecLen) :
                query = TextQuery(content)

\* csvadapter.rs:20-23: one line per entry, in order
WriteEntries ==
    /\ pc = "codec"
    /\ query.kind = "none"
    /\ query' = TextQuery([i \in 1..Len(entries) |-> to_csv_string(entries[i])])
    /\ UNCHANGED <<entries, sort_by, active_file, plot_reset_next_frame, entry_view,
                   fs, op, pc, cat_mgr, app_vars>>

\* read_entries_from_reader on the text
ReadEntries ==
    /\ pc = "codec"
    /\ query.kind = "text"
    /\ query' = [kind |-> "read_entries_from_reader", args |-> query.args,
                 result |-> read_entries_from_reader(query.args)]
    /\ UNCHANGED <<entries, sort_by, active_file, plot_reset_next_frame, entry_view,
                   fs, op, pc, cat_mgr, app_vars>>

NextCodec == WriteEntries \/ ReadEntries

SpecCodec == InitCodec /\ [][NextCodec]_vars

(***************************************************************************)
(* Category names: CategoryName::from_str and Display on pairs of texts,   *)
(* and CategoryManager::add on a manager that starts empty                 *)
(***************************************************************************)
\* the longest text given as a category name
MaxNameLen == 3

\* the most categories registered in a run
MaxCategories == 2

\* a letter in both cases, a whitespace character, a digit
NameChars == {"a", "A", " ", "1"}

NameInputs == SeqsUpTo(NameChars, MaxNameLen)

\* CategoryName::from_str(s), and the Display of the name it returns
ParseAndShow(s) ==
    LET r == CategoryName_from_str(s)
    IN  [parsed |-> r, shown |-> IF r.ok THEN CategoryName_to_string(r.val) ELSE <<>>]

InitCategory ==
    /\ InitDefaults
    /\ fs = CHOOSE f \in InitFs : TRUE
    /\ pc = "category"

\* two texts are parsed and displayed, on a run with no other call
ParseNames ==
    /\ pc = "category"
    /\ query.kind = "none"
    /\ op.kind = "init"
    /\ \E s \in NameInputs, t \in NameInputs :
          query' = [kind |-> "from_str", args |-> <<s, t>>,
                    result |-> <<ParseAndShow(s), ParseAndShow(t)>>]
    /\ UNCHANGED <<entries, sort_by, active_file, plot_reset_next_frame, entry_view,
                   fs, op, pc, cat_mgr, app_vars>>

\* category.rs:173-178: the text of the input box is registered
AddCategoryOf(category) ==
    /\ pc = "category"
    /\ query.kind = "none"
    /\ Cardinality(DOMAIN cat_mgr) < MaxCategories
    /\ LET r == CategoryManager_add(cat_mgr, category)
       IN  /\ cat_mgr' = r.categories
           /\ op' = [kind |-> "add_category",
                     io |-> IF r.result.ok THEN <<"ok">> ELSE r.result.val]
    /\ UNCHANGED <<entries, sort_by, active_file, plot_reset_next_frame, entry_view,
                   fs, query, pc, app_vars>>

\* the texts registered: empty, whitespace only, a letter in either case, a
\* letter with leading or trailing whitespace, a letter with a digit, a digit
AddInputs ==
    { <<>>, <<" ">>, <<"a">>, <<"A">>, <<" ", "a">>, <<"a", " ">>, <<"a", "1">>,
      <<"1">> }

AddCategory == \E category \in AddInputs : AddCategoryOf(category)

NextCategory == ParseNames \/ AddCategory

SpecCategory == InitCategory /\ [][NextCategory]_vars

(***************************************************************************)
(* The category editor, the spending limits, the add-entry form with its   *)
(* limit check, and the import of a vector of entries, on one App          *)
(***************************************************************************)
\* the numbers the limit of a category is dragged to
DragValues == {-1, 0, 1}

\* no category's number is dragged in this frame
NoCategory == <<"-">>

\* what the clock reads when the limit is checked: the month of the form's
\* date, the next month, the same month of the next year
Todays == {Jan20, Feb05, NaiveDate(2025, 1, 20)}

\* the vectors of entries imported: one category, and two categories that
\* differ in leading whitespace
ImportData ==
    { <<Entry(NameX, 1, Jan20, <<"a">>)>>,
      <<Entry(NameX, 1, Jan20, <<"a">>), Entry(NameY, 1, Jan20, <<" ", "a">>)>> }

InitAppRun ==
    /\ InitDefaults
    /\ fs = CHOOSE f \in InitFs : TRUE
    /\ pc = "app"

\* CategoryManager::editor_ui, Add: the text of the input box is registered
EditorAddOf(category) ==
    /\ pc = "app"
    /\ LET r == CategoryManager_add(cat_mgr, category)
       IN  /\ cat_mgr' = r.categories
           /\ op' = [kind |-> "editor_add",
                     io |-> IF r.result.ok THEN <<"ok">> ELSE r.result.val]
    /\ UNCHANGED <<entries, sort_by, active_file, plot_reset_next_frame, entry_view,
                   fs, query, pc, app_vars>>

EditorAdd == \E category \in AddInputs : EditorAddOf(category)

\* CategoryManager::editor_ui, Delete
EditorDelete ==
    /\ pc = "app"
    /\ \E category \in categories_keys(cat_mgr) :
          cat_mgr' = categories_remove(cat_mgr, category)
    /\ op' = [kind |-> "editor_delete", io |-> <<>>]
    /\ UNCHANGED <<entries, sort_by, active_file, plot_reset_next_frame, entry_view,
                   fs, query, pc, app_vars>>

\* CategoryManager::limits_ui: the checkbox is set, and at most one
\* category's number is dragged
LimitsUiOf(enabled, category, dragged) ==
    /\ pc = "app"
    /\ spending_warnings_enabled' = enabled
    /\ cat_mgr' = limits_ui(cat_mgr, category, dragged)
    /\ op' = [kind |-> "limits_ui", io |-> <<>>]
    /\ UNCHANGED <<entries, sort_by, active_file, plot_reset_next_frame, entry_view,
                   fs, query, pc, add_entry_view, file_pick, tasks>>

LimitsUi ==
    \E enabled \in BOOLEAN, category \in categories_keys(cat_mgr) \cup {NoCategory},
       dragged \in DragValues :
        LimitsUiOf(enabled, category, dragged)

\* AddEntry::ui, the combo box: a registered category is chosen
FormSelect ==
    /\ pc = "app"
    /\ \E category \in categories_keys(cat_mgr) :
          add_entry_view' = [add_entry_view EXCEPT
                                !.category = CategoryName_to_string(category)]
    /\ op' = [kind |-> "form_select", io |-> <<>>]
    /\ UNCHANGED <<entries, sort_by, active_file, plot_reset_next_frame, entry_view,
                   fs, query, pc, cat_mgr, spending_warnings_enabled, file_pick,
                   tasks>>

\* AddEntry::build_entry: the form holds a name, a cost and a date
build_entry(form) == Entry(NameX, 1, Jan20, CategoryName_from_str(form.category).val)

\* AddEntry::ui, Add (enabled when a category is chosen), then MainPage::add:
\* the entry is added and its limit is checked; a panic ends the program
FormAddOf(today) ==
    /\ pc = "app"
    /\ add_entry_view.category # <<>>
    /\ Len(entries) < MaxLen
    /\ LET entry == build_entry(add_entry_view)
           r == add_entry(DM, fs, entry, NoFail)
           checked == check_limit(cat_mgr, spending_warnings_enabled, entry,
                                  r.dm.entries, today)
       IN  /\ Apply(Outcome(r.dm, r.fs, <<checked>>), "form_add")
           /\ pc' = IF checked = "panic" THEN "crashed" ELSE pc
    /\ UNCHANGED <<entry_view, query, cat_mgr, app_vars>>

FormAdd == \E today \in Todays : FormAddOf(today)

\* App::import_entry_vec
ImportEntryVecOf(data) ==
    /\ pc = "app"
    /\ LET r == import_entry_vec(DM, cat_mgr, data)
       IN  /\ Apply(Outcome(r.dm, fs, r.io), "import_entry_vec")
           /\ cat_mgr' = r.categories
    /\ UNCHANGED <<entry_view, query, pc, app_vars>>

ImportEntryVec == \E data \in ImportData : ImportEntryVecOf(data)

NextApp ==
    EditorAdd \/ EditorDelete \/ LimitsUi \/ FormSelect \/ FormAdd \/ ImportEntryVec

SpecApp == InitAppRun /\ [][NextApp]_vars

(***************************************************************************)
(* The Import button of the wasm32 build: producer tasks and the inbox     *)
(***************************************************************************)
MaxTasks == 2   \* Import clicks of a run, each spawning a producer task

FileResponse_NoFile == [kind |-> "NoFile", data |-> <<>>]
FileResponse_FileData(data) == [kind |-> "FileData", data |-> data]
FileResponse_Error == [kind |-> "Error", data |-> <<>>]

\* the files the user can pick in the browser: a.csv holds two records, b.csv
\* one record, or a record and a line that is none
WasmFs ==
    LET good == <<to_csv_string(Entry(NameX, 2, Feb05, Rent)),
                  to_csv_string(Entry(NameX, 1, Jan20, Misc))>>
        first == to_csv_string(Entry(NameY, 1, Feb05, Misc))
    IN  {[p \in AllPaths |-> IF p = PathA THEN File(good)
                             ELSE IF p = PathB THEN b ELSE NoFile] :
            b \in {File(<<first>>), File(<<first, <<"b", "a", "d">>>>)}}

\* what pick_file().await resolves to: no file, or a handle of a file
FileHandles == {None} \cup {Some(p) : p \in {PathA, PathB}}

InitWasm ==
    /\ InitDefaults
    /\ pc = "wasm"
    /\ fs \in WasmFs

\* csvadapter::read_entries_from_vec on the bytes of a picked file
read_entries_from_vec(buffer) == read_entries_from_reader(buffer)

\* Mutex::try_lock: Err(WouldBlock) while the lock is held
try_lock(mutex) == IF mutex.locked THEN Err ELSE Ok(mutex.value)

\* variant of poll: the response is taken whether or not the lock is held
poll_ignoring_lock(mutex, dm, categories) ==
    IF mutex.value = None
    THEN [file_pick |-> mutex, dm |-> dm, categories |-> categories, io |-> <<>>]
    ELSE LET pick == Unwrap(mutex.value)
             taken == [mutex EXCEPT !.value = None]
             r == import_entry_vec(dm, categories, pick.data)
         IN  IF pick.kind = "FileData"
             THEN [file_pick |-> taken, dm |-> r.dm, categories |-> r.categories,
                   io |-> <<pick.kind>>]
             ELSE [file_pick |-> taken, dm |-> dm, categories |-> categories,
                   io |-> <<pick.kind>>]

\* variant of poll: the response is read and left in the inbox
poll_not_cleared(mutex, dm, categories) ==
    LET response == try_lock(mutex)
    IN  IF ~response.ok \/ response.val = None
        THEN [file_pick |-> mutex, dm |-> dm, categories |-> categories, io |-> <<>>]
        ELSE LET pick == Unwrap(response.val)
                 r == import_entry_vec(dm, categories, pick.data)
             IN  IF pick.kind = "FileData"
                 THEN [file_pick |-> mutex, dm |-> r.dm, categories |-> r.categories,
                       io |-> <<pick.kind>>]
                 ELSE [file_pick |-> mutex, dm |-> dm, categories |-> categories,
                       io |-> <<pick.kind>>]

\* the second half of import_button: try_lock, response.take(), the match
\* (its io is the kind of the response that was logged), *response = None,
\* and import_entry_vec of the data
poll(mutex, dm, categories) ==
    LET response == try_lock(mutex)
    IN  IF ~response.ok \/ response.val = None
        THEN [file_pick |-> mutex, dm |-> dm, categories |-> categories, io |-> <<>>]
        ELSE LET pick == Unwrap(response.val)
                 taken == [mutex EXCEPT !.value = None]
                 r == import_entry_vec(dm, categories, pick.data)
             IN  IF pick.kind = "FileData"
                 THEN [file_pick |-> taken, dm |-> r.dm, categories |-> r.categories,
                       io |-> <<pick.kind>>]
                 ELSE [file_pick |-> taken, dm |-> dm, categories |-> categories,
                       io |-> <<pick.kind>>]

\* MenuBar::import_button (wasm32), one frame: a click spawns a producer
\* task, which does not run before the frame ends; then the inbox is polled
ImportButtonOf(clicked) ==
    /\ pc = "wasm"
    /\ clicked => Len(tasks) < MaxTasks
    /\ LET r == poll(file_pick, DM, cat_mgr)
       IN  /\ Apply(Outcome(r.dm, fs, r.io), "import_button")
           /\ cat_mgr' = r.categories
           /\ file_pick' = r.file_pick
    /\ tasks' = IF clicked THEN Append(tasks, [pc |-> "picking", handle |-> None])
                ELSE tasks
    /\ UNCHANGED <<entry_view, query, pc, spending_warnings_enabled, add_entry_view>>

ImportButton == \E clicked \in BOOLEAN : ImportButtonOf(clicked)

\* the producer task from the resolution of pick_file().await to its next
\* await or its end: file_pick_clone.lock().unwrap(), then for no file the
\* deposit of NoFile and the release, for a file the start of handle.read()
\* with the guard alive.  lock() on a mutex held by a suspended task of the
\* same thread cannot succeed: it panics (wasm32 without threads) or it
\* blocks the only thread for ever (with threads)
PickFileOf(i, file) ==
    /\ pc = "wasm"
    /\ i \in 1..Len(tasks)
    /\ tasks[i].pc = "picking"
    /\ IF file_pick.locked
       THEN \E outcome \in {"panic", "blocked"} :
               /\ tasks' = [tasks EXCEPT ![i].pc = outcome]
               /\ pc' = IF outcome = "blocked" THEN "crashed" ELSE pc
               /\ op' = [kind |-> "pick_file", io |-> <<outcome>>]
               /\ UNCHANGED file_pick
       ELSE /\ IF file = None
               THEN /\ file_pick' = [file_pick EXCEPT !.value = Some(FileResponse_NoFile)]
                    /\ tasks' = [tasks EXCEPT ![i].pc = "done"]
               ELSE /\ file_pick' = [file_pick EXCEPT !.locked = TRUE]
                    /\ tasks' = [tasks EXCEPT ![i] = [pc |-> "reading", handle |-> file]]
            /\ op' = [kind |-> "pick_file", io |-> <<>>]
            /\ UNCHANGED pc
    /\ UNCHANGED <<entries, sort_by, active_file, plot_reset_next_frame, entry_view,
                   fs, query, cat_mgr, spending_warnings_enabled, add_entry_view>>

PickFile(i) == \E file \in FileHandles : PickFileOf(i, file)

\* what a producer task holding the handle of a file deposits
file_response(files, handle) ==
    LET read == read_entries_from_vec(files[Unwrap(handle)].content)
    IN  IF read.ok THEN FileResponse_FileData(read.val) ELSE FileResponse_Error

\* the producer task from the resolution of handle.read().await to its end:
\* read_entries_from_vec, the deposit, and the drop of the guard
ReadOf(i) ==
    /\ pc = "wasm"
    /\ i \in 1..Len(tasks)
    /\ tasks[i].pc = "reading"
    /\ file_pick' = [locked |-> FALSE,
                     value |-> Some(file_response(fs, tasks[i].handle))]
    /\ tasks' = [tasks EXCEPT ![i].pc = "done"]
    /\ op' = [kind |-> "read", io |-> <<>>]
    /\ UNCHANGED <<entries, sort_by, active_file, plot_reset_next_frame, entry_view,
                   fs, query, pc, cat_mgr, spending_warnings_enabled, add_entry_view>>

NextWasm ==
    \/ ImportButton
    \/ \E i \in 1..MaxTasks : PickFile(i)
    \/ \E i \in 1..MaxTasks : ReadOf(i)

SpecWasm == InitWasm /\ [][NextWasm]_vars

\* ReadOf(i) as it acts on the tasks: the read of task i ends
ReadEnds(i) ==
    /\ pc = "wasm"
    /\ i \in 1..Len(tasks)
    /\ tasks[i].pc = "reading"
    /\ tasks' = [tasks EXCEPT ![i].pc = "done"]

\* ImportButtonOf as it acts on the inbox: a frame's poll takes the response
PollTakes ==
    /\ pc = "wasm"
    /\ ~file_pick.locked
    /\ file_pick.value # None
    /\ file_pick' = [file_pick EXCEPT !.value = None]

\* the same program where every dialog is answered, every read of a file
\* ends, and the main loop keeps drawing frames while the program runs: a
\* task that waits for its dialog or its read takes its step, and a response
\* in the unlocked inbox is polled
WasmFairness ==
    /\ \A i \in 1..MaxTasks : WF_vars(PickFile(i))
    /\ \A i \in 1..MaxTasks : WF_tasks(ReadEnds(i))
    /\ WF_file_pick(PollTakes)

SpecWasmFair == InitWasm /\ [][NextWasm]_vars /\ WasmFairness

(***************************************************************************)
(* The aggregation, on any entry collection                                *)
(***************************************************************************)
Dec15 == NaiveDate(2023, 12, 15)
Jan01 == NaiveDate(2024, 1, 1)
Mar01 == NaiveDate(2024, 3, 1)
Mar15 == NaiveDate(2024, 3, 15)

AggUniverse ==
    {Entry(NameX, c, d, cat) :
        c \in {1, 2}, d \in {Dec15, Jan01, Jan20, Mar01}, cat \in {Misc, Rent}}

\* the category lists a caller asks for
AggCategoryLists == SeqsUpTo({Misc, Rent, Food}, 2)

InitAgg ==
    /\ entries \in SeqsUpTo(AggUniverse, MaxAggEntries)
    /\ sort_by = DataManager_default.sort_by
    /\ active_file = DataManager_default.active_file
    /\ plot_reset_next_frame = DataManager_default.plot_reset_next_frame
    /\ entry_view = Entries_default
    /\ fs = CHOOSE f \in InitFs : TRUE
    /\ op = NoOp
    /\ query = NoQuery
    /\ cat_mgr = CategoryManager_default
    /\ InitApp
    /\ pc = "agg"

\* Graph: one call of cost_map on the collection
CostMapCall ==
    /\ pc = "agg"
    /\ query.kind = "none"
    /\ \E group_by \in GroupBy, categories \in AggCategoryLists :
          query' = [kind |-> "cost_map", args |-> <<group_by, categories>>,
                    result |-> cost_map(entries, group_by, categories)]
    /\ UNCHANGED <<entries, sort_by, active_file, plot_reset_next_frame, entry_view,
                   fs, op, pc, cat_mgr, app_vars>>

\* check_limit: one call of monthly_cost on the collection
MonthlyCostCall ==
    /\ pc = "agg"
    /\ query.kind = "none"
    /\ \E category \in {Misc, Rent, Food}, date \in {Jan20, Mar15} :
          query' = [kind |-> "monthly_cost", args |-> <<category, date>>,
                    result |-> monthly_cost(entries, category, date)]
    /\ UNCHANGED <<entries, sort_by, active_file, plot_reset_next_frame, entry_view,
                   fs, op, pc, cat_mgr, app_vars>>

NextAgg == CostMapCall \/ MonthlyCostCall

SpecAgg == InitAgg /\ [][NextAgg]_vars

(***************************************************************************)
(* The scripted run sort(Date); sort(Cost); delete display row 0 of the    *)
(* ascending view, from any non-empty collection                           *)
(***************************************************************************)
InitScenario ==
    /\ pc = "s0"
    /\ entries \in SeqsUpTo(EntryUniverse, MaxEntries) \ {<<>>}
    /\ sort_by \in SortBy
    /\ active_file = None
    /\ plot_reset_next_frame = FALSE
    /\ entry_view = [sort_by |-> sort_by, sort_order |-> "Increasing",
                     allow_deletion |-> TRUE]
    /\ fs = CHOOSE f \in InitFs : TRUE
    /\ op = NoOp
    /\ query = [kind |-> "scenario", args |-> entries, result |-> <<>>]
    /\ cat_mgr = CategoryManager_default
    /\ InitApp

ScenarioSortDate ==
    /\ pc = "s0"
    /\ Apply(sort_entries(DM, fs, "Date"), "sort_entries")
    /\ pc' = "s1"
    /\ UNCHANGED <<entry_view, query, cat_mgr, app_vars>>

ScenarioSortCost ==
    /\ pc = "s1"
    /\ Apply(sort_entries(DM, fs, "Cost"), "sort_entries")
    /\ pc' = "s2"
    /\ UNCHANGED <<entry_view, query, cat_mgr, app_vars>>

ScenarioRemoveFirst ==
    /\ pc = "s2"
    /\ Apply(scroll_area(entry_view, DM, fs, <<0>>, <<NoFail>>), "scroll_area")
    /\ pc' = "s3"
    /\ UNCHANGED <<entry_view, query, cat_mgr, app_vars>>

NextScenario == ScenarioSortDate \/ ScenarioSortCost \/ ScenarioRemoveFirst

SpecScenario == InitScenario /\ [][NextScenario]_vars

(***************************************************************************)
(* What the claims speak of                                                *)
(***************************************************************************)
\* the bucket a date falls in: the date itself (Day), the first day of its
\* month (Month), January 1 of its year (Year)
Bucket(date, group_by) ==
    IF group_by = "Day" THEN date
    ELSE IF group_by = "Month" THEN [date EXCEPT !.day = 1]
    ELSE [date EXCEPT !.month = 1, !.day = 1]

DateLeq(a, b) == a = b \/ DateLess(a, b)

DatesOf(es) == {es[i].date : i \in 1..Len(es)}
EarliestDate(es) == CHOOSE d \in DatesOf(es) : \A x \in DatesOf(es) : DateLeq(d, x)
LatestDate(es) == CHOOSE d \in DatesOf(es) : \A x \in DatesOf(es) : DateLeq(x, d)

\* every calendar date of the years the collection touches
CalendarDates(es) ==
    {NaiveDate(y, m, d) : y \in EarliestDate(es).year..LatestDate(es).year,
                         m \in 1..12, d \in 1..31} \cap
    UNION {{NaiveDate(y, m, d) : d \in 1..DaysInMonth(y, m)} :
              y \in EarliestDate(es).year..LatestDate(es).year, m \in 1..12}

\* the buckets from that of the earliest date to that of the latest one
ExpectedBuckets(es, group_by) ==
    {b \in {Bucket(d, group_by) : d \in CalendarDates(es)} :
        /\ DateLeq(Bucket(EarliestDate(es), group_by), b)
        /\ DateLeq(b, Bucket(LatestDate(es), group_by))}

RECURSIVE CostOver(_, _)
\* the sum of the costs of the entries at the indices I
CostOver(es, I) ==
    IF I = {} THEN 0
    ELSE LET i == CHOOSE x \in I : TRUE IN es[i].cost + CostOver(es, I \ {i})

RECURSIVE SeriesTotal(_, _)
\* the sum of the values of a series over the keys K
SeriesTotal(series, K) ==
    IF K = {} THEN 0
    ELSE LET k == CHOOSE x \in K : TRUE IN series[k] + SeriesTotal(series, K \ {k})

IsCostMapCall == query.kind = "cost_map"
AskedGroupBy == query.args[1]
AskedCategories == ToSet(query.args[2])

(***************************************************************************)
(* C1: for a non-empty collection, every requested category of cost_map    *)
(* has a series, and the keys of each series are exactly the buckets from  *)
(* the bucket of the earliest entry date to the bucket of the latest one   *)
(* (over the whole collection), so all series have the same keys.          *)
(***************************************************************************)
C1_BucketKeys ==
    (IsCostMapCall /\ entries # <<>>) =>
        \A c \in AskedCategories :
            /\ c \in DOMAIN query.result
            /\ DOMAIN query.result[c] = ExpectedBuckets(entries, AskedGroupBy)

(***************************************************************************)
(* C2: in the result of cost_map, the value of category c at bucket key k  *)
(* is the sum of the costs of the entries of category c whose date falls   *)
(* in bucket k (0 when there is none), and every entry of a requested      *)
(* category has its bucket among the keys of its category.                 *)
(***************************************************************************)
C2_BucketSums ==
    IsCostMapCall =>
        /\ \A c \in DOMAIN query.result :
              \A k \in DOMAIN query.result[c] :
                 query.result[c][k] =
                    CostOver(entries,
                             {i \in 1..Len(entries) :
                                 /\ entries[i].category = c
                                 /\ Bucket(entries[i].date, AskedGroupBy) = k})
        /\ \A i \in 1..Len(entries) :
              entries[i].category \in AskedCategories =>
                 /\ entries[i].category \in DOMAIN query.result
                 /\ Bucket(entries[i].date, AskedGroupBy)
                       \in DOMAIN query.result[entries[i].category]

\* two entries of different days were summed into one month bucket
C2_Witness ==
    /\ IsCostMapCall
    /\ AskedGroupBy = "Month"
    /\ Len(entries) = 2
    /\ entries[1].date # entries[2].date
    /\ entries[1].category = entries[2].category
    /\ \E c \in DOMAIN query.result :
          \E k \in DOMAIN query.result[c] :
             /\ c = entries[1].category
             /\ query.result[c][k] = entries[1].cost + entries[2].cost

(***************************************************************************)
(* C3: for cost_map(Day, ...), the values of the series of each requested  *)
(* category add up to the total cost of the entries of that category.      *)
(***************************************************************************)
C3_DayConservation ==
    (IsCostMapCall /\ AskedGroupBy = "Day") =>
        \A c \in AskedCategories :
            (IF c \in DOMAIN query.result
             THEN SeriesTotal(query.result[c], DOMAIN query.result[c]) ELSE 0)
               = CostOver(entries, {i \in 1..Len(entries) : entries[i].category = c})

\* a Day series with two entries of one category on the same day
C3_Witness ==
    /\ IsCostMapCall
    /\ AskedGroupBy = "Day"
    /\ Len(entries) = 2
    /\ entries[1].category = entries[2].category
    /\ entries[1].date = entries[2].date
    /\ entries[1].category \in AskedCategories

(***************************************************************************)
(* C4: the categories of cost_map's result are exactly the requested ones  *)
(* when the collection is non-empty, and the result is the empty mapping   *)
(* when the collection is empty.                                           *)
(***************************************************************************)
C4_OuterKeys ==
    IsCostMapCall =>
        DOMAIN query.result = (IF entries = <<>> THEN {} ELSE AskedCategories)

\* an entry of a category that was not asked for, and an asked category
\* that has no entry
C4_Witness ==
    /\ IsCostMapCall
    /\ entries # <<>>
    /\ \E i \in 1..Len(entries) : entries[i].category \notin AskedCategories
    /\ Food \in AskedCategories
    /\ DOMAIN query.result = AskedCategories

(***************************************************************************)
(* C5: monthly_cost(category, date) is the sum of the costs of the entries *)
(* of that category dated in the month and year of `date`.                 *)
(***************************************************************************)
C5_MonthlyCost ==
    query.kind = "monthly_cost" =>
        query.result =
            CostOver(entries,
                     {i \in 1..Len(entries) :
                         /\ entries[i].category = query.args[1]
                         /\ entries[i].date.year = query.args[2].year
                         /\ entries[i].date.month = query.args[2].month})

(***************************************************************************)
(* Helpers of the claims about ordering, deletion and persistence          *)
(***************************************************************************)
\* the step was made by one of the handlers named in `kinds`: AddEntry,
\* SortEntries, ControlsSortBy and ScrollArea leave their name in op
StepOf(kinds) == op'.kind \in kinds

YMDLeq(a, b) ==
    \/ a.year < b.year
    \/ a.year = b.year /\ a.month < b.month
    \/ a.year = b.year /\ a.month = b.month /\ a.day <= b.day

\* es is in ascending order under the key `by`
Ascending(es, by) ==
    \A i, j \in 1..Len(es) :
        i < j => IF by = "Date" THEN YMDLeq(es[i].date, es[j].date)
                 ELSE es[i].cost <= es[j].cost

\* the rows of the entry view, top to bottom
Shown ==
    IF entry_view.sort_order = "Decreasing"
    THEN [i \in 1..Len(entries) |-> entries[Len(entries) + 1 - i]]
    ELSE entries

\* es without the element at index j, counted from 0
Without(es, j) ==
    [k \in 1..(Len(es) - 1) |-> IF k <= j THEN es[k] ELSE es[k + 1]]

\* how often e occurs in es
Count(es, e) == Cardinality({i \in 1..Len(es) : es[i] = e})

\* the serialization of a collection, one line per entry in stored order
SerialLines(es) == [i \in 1..Len(es) |-> to_csv_string(es[i])]

(***************************************************************************)
(* C6: immediately after every add and every sort the collection is in     *)
(* ascending order under the active sort key; the active key is the key    *)
(* last passed to sort: Date at the start, set by each sort to its         *)
(* argument, changed by nothing else.                                      *)
(***************************************************************************)
C6_SortedAfterAddAndSort ==
    /\ sort_by = "Date"
    /\ [][/\ StepOf({"sort_entries", "controls_sort_by"}) =>
                \A by \in SortBy :
                    (SortEntriesBy(by) \/ ControlsSortByTo(by)) =>
                        (sort_by' = by /\ Ascending(entries', by))
          /\ StepOf({"add_entry"}) =>
                (sort_by' = sort_by /\ Ascending(entries', sort_by))
          /\ sort_by' # sort_by => StepOf({"sort_entries", "controls_sort_by"})]_vars

\* an add put an entry into a collection kept by cost whose dates are not
\* in order
C6_Witness ==
    /\ op.kind = "add_entry"
    /\ sort_by = "Cost"
    /\ Len(entries) = 3
    /\ entries[1].cost < entries[3].cost
    /\ ~Ascending(entries, "Date")

(***************************************************************************)
(* C7: deleting the row at display position i removes the stored element   *)
(* at index i in the ascending view and at index length - 1 - i in the     *)
(* reversed view, which is the entry shown at row i; the other entries     *)
(* stay, in the same order.                                                *)
(***************************************************************************)
C7_DeleteShownRow ==
    [][(StepOf({"scroll_area"}) /\ Len(op'.io) = 1) =>
          \A i \in 0..(Len(entries) - 1) :
              ScrollAreaOn(<<i>>) =>
                  LET j == IF entry_view.sort_order = "Decreasing"
                           THEN Len(entries) - 1 - i ELSE i
                  IN  /\ entries[j + 1] = Shown[i + 1]
                      /\ entries' = Without(entries, j)]_vars

\* a row of the reversed view was deleted from three different entries,
\* and the two left are in stored order
C7_Witness ==
    /\ op.kind = "scroll_area"
    /\ Len(op.io) = 1
    /\ entry_view.sort_order = "Decreasing"
    /\ Len(entries) = 2
    /\ entries[1] # entries[2]

(***************************************************************************)
(* C8: from any non-empty collection, sort(Date); sort(Cost); delete of    *)
(* row 0 of the ascending view removes one entry of minimum cost: what is  *)
(* left is the starting collection less one entry whose cost no entry      *)
(* undercuts.                                                              *)
(***************************************************************************)
C8_RemovesMinCost ==
    pc = "s3" =>
        \E i \in 1..Len(query.args) :
            /\ \A k \in 1..Len(query.args) : query.args[i].cost <= query.args[k].cost
            /\ Len(entries) = Len(query.args) - 1
            /\ \A e \in EntryUniverse :
                  Count(entries, e) =
                     Count(query.args, e) - (IF e = query.args[i] THEN 1 ELSE 0)

\* the run ended on a collection whose earliest entries all cost more than
\* the cheapest one, and they are all still there
C8_Witness ==
    /\ pc = "s3"
    /\ Len(query.args) = 3
    /\ \A i \in 1..3 :
          query.args[i].date = EarliestDate(query.args) =>
             /\ \E k \in 1..3 : query.args[k].cost < query.args[i].cost
             /\ Count(entries, query.args[i]) = Count(query.args, query.args[i])

(***************************************************************************)
(* C9, as stated: sort(by) attempts a write-through exactly when `by`      *)
(* differs from the active sort key.                                       *)
(***************************************************************************)
C9_WriteThroughIffKeyChanges ==
    [][StepOf({"sort_entries"}) =>
          \A by \in SortBy :
              SortEntriesBy(by) => ((op'.io # <<>>) <=> (by # sort_by))]_vars

(***************************************************************************)
(* C9, amended: sort(by) never attempts a write-through, whether `by`      *)
(* differs from the active key or not: the files and the active file stay  *)
(* as they are, and `by` becomes the active key.                           *)
(***************************************************************************)
C9_SortNeverPersists ==
    [][StepOf({"sort_entries", "controls_sort_by"}) =>
          \A by \in SortBy :
              (SortEntriesBy(by) \/ ControlsSortByTo(by)) =>
                  /\ op'.io = <<>>
                  /\ fs' = fs
                  /\ active_file' = active_file
                  /\ sort_by' = by]_vars

\* after a sort by a key other than the first one, with an active file: the
\* file still holds what it held at the start, in another order than memory
C9_Witness ==
    /\ op.kind = "sort_entries"
    /\ sort_by = "Cost"
    /\ active_file # None
    /\ fs \in InitFs
    /\ Len(entries) = 2
    /\ fs[Unwrap(active_file)].content = <<to_csv_string(entries[2]),
                                           to_csv_string(entries[1])>>
    /\ entries[1] # entries[2]

(***************************************************************************)
(* C10: an add or a delete done while an active file is set, no I/O step   *)
(* failing, leaves in that file the serialization of the collection in     *)
(* stored order, one line per entry; done while no active file is set, it  *)
(* writes nothing and leaves the active file unset.                        *)
(***************************************************************************)
C10_WriteThrough ==
    [][StepOf({"add_entry", "scroll_area"}) =>
          IF active_file = None
          THEN fs' = fs /\ active_file' = None
          ELSE (\A k \in 1..Len(op'.io) : op'.io[k] = "ok") =>
                  /\ active_file' = active_file
                  /\ fs'[Unwrap(active_file)] = File(SerialLines(entries'))
                  /\ Len(fs'[Unwrap(active_file)].content) = Len(entries')]_vars

\* an add wrote three lines over a file that held fewer
C10_Witness ==
    /\ op.kind = "add_entry"
    /\ op.io = <<"ok">>
    /\ active_file # None
    /\ Len(entries) = 3
    /\ fs[Unwrap(active_file)].content = SerialLines(entries)
    /\ ~Ascending(entries, "Cost")

(***************************************************************************)
(* C11: when a write-through overwrites an existing backing file, the      *)
(* backup file (same path, extension "backup") afterwards holds the        *)
(* content the backing file had before the overwrite.                      *)
(***************************************************************************)
C11_BackupHoldsPrevious ==
    [][(StepOf({"add_entry", "scroll_area"}) /\ op'.io = <<"ok">>
            /\ active_file # None) =>
          LET path == Unwrap(active_file)
          IN  fs[path].exists =>
                 fs'[with_extension(path, "backup")] = fs[path]]_vars

\* the write-throughs a step made, for the handlers that make them
WroteThrough == StepOf({"add_entry", "scroll_area", "write_entries_to_csv"})

WriteFailed == op'.io \notin {<<"ok">>, <<"skipped">>}

(***************************************************************************)
(* C13: when the write-through of an add or of a delete fails with an I/O  *)
(* error, the operation completes and the collection reflects it: the add  *)
(* leaves the old entries and the new one, in ascending order under the    *)
(* active key; the delete leaves the old entries less the one deleted, in  *)
(* the same order; the key stays.                                          *)
(***************************************************************************)
C13_MutationSurvivesWriteFailure ==
    [][/\ (StepOf({"add_entry"}) /\ WriteFailed) =>
             /\ Len(entries') = Len(entries) + 1
             /\ \E e \in FormEntries :
                   \A x \in FormEntries \cup {entries[i] : i \in 1..Len(entries)} :
                       Count(entries', x) = Count(entries, x) + (IF x = e THEN 1 ELSE 0)
             /\ Ascending(entries', sort_by)
             /\ sort_by' = sort_by
       /\ (StepOf({"scroll_area"}) /\ WriteFailed) =>
             /\ \E j \in 0..(Len(entries) - 1) : entries' = Without(entries, j)
             /\ sort_by' = sort_by]_vars

\* an add whose write-through failed after the first of two lines
C13_Witness ==
    /\ op.kind = "add_entry"
    /\ op.io = <<"write">>
    /\ Len(entries) = 2
    /\ fs[Unwrap(active_file)].content = SubSeq(SerialLines(entries), 1, 1)

\* the step is an import: App::import_entries_file or
\* DataManager::read_entries_from_csv
Imported == StepOf({"import_entries_file", "read_entries_from_csv"})

(***************************************************************************)
(* C14: a bulk replace leaves the collection equal to the entries given,   *)
(* in the order given (here: the entries of the file, in file order),      *)
(* whatever was stored before; it does not re-sort them, keeps the active  *)
(* sort key, writes to no file, and leaves the reset-view flag set.        *)
(***************************************************************************)
C14_BulkReplace ==
    [][Imported =>
          \A p \in PickablePaths :
              LET r == read_entries_from_file(fs, p)
              IN  (/\ r.ok
                   /\ \/ StepOf({"import_entries_file"}) /\ ImportEntriesFileOf(p)
                      \/ StepOf({"read_entries_from_csv"}) /\ ReadEntriesFromCsvOf(p)) =>
                      /\ entries' = r.val
                      /\ sort_by' = sort_by
                      /\ fs' = fs
                      /\ plot_reset_next_frame']_vars

\* an import under the key Cost brought in two entries that are in order
\* under neither key
C14_Witness ==
    /\ op.kind = "import_entries_file"
    /\ op.io = <<>>
    /\ sort_by = "Cost"
    /\ Len(entries) = 2
    /\ ~Ascending(entries, "Cost")
    /\ ~Ascending(entries, "Date")
    /\ plot_reset_next_frame

(***************************************************************************)
(* C15: a render resets the plot view exactly when the reset-view flag is  *)
(* set as it starts; the flag is false after every render; a flag that is  *)
(* set stays set through every step that is not a render.                  *)
(***************************************************************************)
C15_ResetFlagConsumed ==
    [][/\ GraphUi => /\ (op'.io = <<"reset">>) <=> plot_reset_next_frame
                     /\ ~plot_reset_next_frame'
       /\ (plot_reset_next_frame /\ ~StepOf({"plot"})) => plot_reset_next_frame']_vars

\* a render has just reset the view for an imported collection and cleared
\* the flag
C15_Witness ==
    /\ op.kind = "plot"
    /\ op.io = <<"reset">>
    /\ ~plot_reset_next_frame
    /\ entries # <<>>
    /\ active_file # None

(***************************************************************************)
(* C16: an import that fails to read or parse its file leaves the entry    *)
(* collection, the active file, the reset-view flag and the category       *)
(* registry as they were.                                                  *)
(***************************************************************************)
C16_FailedImportLeavesState ==
    [][Imported =>
          \A p \in PickablePaths :
              ((ImportEntriesFileOf(p) \/ ReadEntriesFromCsvOf(p))
                   /\ ~read_entries_from_file(fs, p).ok) =>
                  /\ entries' = entries
                  /\ active_file' = active_file
                  /\ plot_reset_next_frame' = plot_reset_next_frame
                  /\ cat_mgr' = cat_mgr]_vars

(***************************************************************************)
(* C17: reading fails as a whole                                           *)
(***************************************************************************)
\* a line that is no record: it does not split into exactly 4 fields, or its
\* date, cost or category does not parse
Malformed(line) == ~Entry_try_from(SplitOn(line, ",", <<>>)).ok

WasRead == query.kind = "read_entries_from_reader"

\* C17: when any line of the text read is malformed (not exactly 4 fields, or
\* a date, cost or category that does not parse), reading returns an error
\* and no entries: no malformed line is skipped while the others are returned.
C17_FailFast ==
    (WasRead /\ \E i \in 1..Len(query.args) : Malformed(query.args[i]))
        => ~query.result.ok

(***************************************************************************)
(* C18: writing, then reading                                              *)
(***************************************************************************)
NoComma(name) == \A i \in 1..Len(name) : name[i] # ","

\* C18: for every sequence of entries whose names hold no comma, reading the
\* text written for the sequence returns a sequence of the same length and
\* order with the same name, date, cost and category in every place.
C18_RoundTrip ==
    (/\ WasRead
     /\ query.args = SerialLines(entries)
     /\ \A i \in 1..Len(entries) : NoComma(entries[i].name))
        => query.result = Ok(entries)


(***************************************************************************)
(* C19: the normal form of a category name                                 *)
(***************************************************************************)
WasParsed == query.kind = "from_str"

BothValid == query.result[1].parsed.ok /\ query.result[2].parsed.ok

\* C19: any two valid inputs that differ only in letter case or in leading or
\* trailing whitespace are parsed and displayed as the same string.
C19_SameNormalForm ==
    (/\ WasParsed /\ BothValid
     /\ to_lowercase(trim(query.args[1])) = to_lowercase(trim(query.args[2])))
        => query.result[1].shown = query.result[2].shown

\* C19, as the code has it: a valid input is displayed as its lowercase form
\* with its whitespace kept, so two valid inputs that differ only in letter
\* case are displayed as the same string, and two that differ in leading or
\* trailing whitespace are displayed as different strings.
C19_CaseOnly ==
    (WasParsed /\ BothValid) =>
        /\ \A k \in 1..2 : query.result[k].shown = to_lowercase(query.args[k])
        /\ to_lowercase(query.args[1]) = to_lowercase(query.args[2])
              => query.result[1].shown = query.result[2].shown
        /\ Len(query.args[1]) # Len(query.args[2])
              => query.result[1].shown # query.result[2].shown

C19_Witness ==
    /\ WasParsed /\ BothValid
    /\ query.args = << <<"A", " ", "a">>, <<"a", " ", "A">> >>
    /\ query.result[1].shown = <<"a", " ", "a">>
    /\ query.result[2].shown = <<"a", " ", "a">>

(***************************************************************************)
(* C20: the names that are refused                                         *)
(***************************************************************************)
\* empty or whitespace only
Blank(s) == \A i \in 1..Len(s) : is_whitespace(s[i])

\* holds a character that is neither alphabetic nor whitespace
HasOther(s) == \E i \in 1..Len(s) : ~is_alphabetic(s[i]) /\ ~is_whitespace(s[i])

Refused(s) == Blank(s) \/ HasOther(s)

\* C20: parsing a category name fails with Invalid for the empty string, for a
\* string of whitespace only and for a string with a character that is
\* neither alphabetic nor whitespace, and succeeds for every other string;
\* registering a name fails with Invalid in exactly the same cases.
C20_InvalidNames ==
    [][/\ query'.kind = "from_str" =>
              \A k \in 1..2 :
                  /\ Refused(query'.args[k]) =>
                        query'.result[k].parsed
                            = CategoryError("Invalid", query'.args[k])
                  /\ ~Refused(query'.args[k]) => query'.result[k].parsed.ok
       /\ StepOf({"add_category"}) =>
              \A category \in AddInputs :
                  AddCategoryOf(category) =>
                      (Refused(category) <=> Head(op'.io) = "Invalid")]_vars

C20_Witness ==
    /\ WasParsed
    /\ query.args = << <<" ", " ">>, <<"a", " ", "A">> >>
    /\ ~query.result[1].parsed.ok
    /\ query.result[2].parsed.ok


(***************************************************************************)
(* C21: a case variant of a registered name is refused                     *)
(***************************************************************************)
\* C21: registering a name whose lowercase form is a registered category
\* fails with Duplicate, carrying the lowercase name, and leaves the registry
\* as it was: the one entry for the name, its limit and its displayed flag.
C21_DuplicateRefused ==
    [][StepOf({"editor_add"}) =>
          \A category \in AddInputs :
              (to_lowercase(category) \in DOMAIN cat_mgr /\ EditorAddOf(category)) =>
                  /\ op'.io = <<"Duplicate">> \o to_lowercase(category)
                  /\ cat_mgr' = cat_mgr]_vars

\* a name was refused as a duplicate of a category that has a limit
C21_Witness ==
    /\ op = [kind |-> "editor_add", io |-> <<"Duplicate", "a">>]
    /\ <<"a">> \in DOMAIN cat_mgr
    /\ cat_mgr[<<"a">>] = [limit |-> Some(1), displayed |-> TRUE]

(***************************************************************************)
(* C22: the categories of an import are registered                         *)
(***************************************************************************)
\* C22: registering the categories of an import leaves every category that
\* was registered as it was (limit and displayed flag), registers every
\* category of the input, each new one with no limit and displayed, and
\* reports no error; afterwards every imported entry's category is registered.
C22_ImportRegisters ==
    [][StepOf({"import_entry_vec"}) =>
          \A data \in ImportData :
              ImportEntryVecOf(data) =>
                  /\ append_categories(cat_mgr, create_unique_category_set(data)).result.ok
                  /\ \A c \in DOMAIN cat_mgr :
                        c \in DOMAIN cat_mgr' /\ cat_mgr'[c] = cat_mgr[c]
                  /\ DOMAIN cat_mgr' = DOMAIN cat_mgr \cup create_unique_category_set(data)
                  /\ \A c \in (DOMAIN cat_mgr') \ (DOMAIN cat_mgr) :
                        cat_mgr'[c] = CategoryInfo_default
                  /\ \A i \in 1..Len(entries') :
                        entries'[i].category \in DOMAIN cat_mgr']_vars

\* an import of two categories: one had a limit and kept it, the other has
\* the defaults
C22_Witness ==
    /\ op.kind = "import_entry_vec"
    /\ Len(entries) = 2
    /\ DOMAIN cat_mgr = {<<"a">>, <<" ", "a">>}
    /\ cat_mgr[<<"a">>].limit = Some(1)
    /\ cat_mgr[<<" ", "a">>] = CategoryInfo_default

(***************************************************************************)
(* C23: a stored limit is positive                                         *)
(***************************************************************************)
\* C23: in every state every category's limit is absent or greater than 0;
\* a limit dragged to 0 or below is stored as absent.
C23_LimitPositive ==
    [][/\ \A c \in DOMAIN cat_mgr' :
              cat_mgr'[c].limit = None \/ Unwrap(cat_mgr'[c].limit) > 0
       /\ StepOf({"limits_ui"}) =>
              \A enabled \in BOOLEAN, category \in DOMAIN cat_mgr,
                 dragged \in DragValues :
                  (dragged <= 0 /\ LimitsUiOf(enabled, category, dragged)) =>
                      cat_mgr'[category].limit = None]_vars

\* the limits were edited: one category has none, another has one
C23_Witness ==
    /\ op.kind = "limits_ui"
    /\ \E c \in DOMAIN cat_mgr : cat_mgr[c].limit = None
    /\ \E c \in DOMAIN cat_mgr : cat_mgr[c].limit = Some(1)

(***************************************************************************)
(* C24: the limit is evaluated in the current month only                   *)
(***************************************************************************)
\* C24: for an entry dated outside the current calendar month and year the
\* limit check does not evaluate the limit: it reports neither that the limit
\* is exceeded nor that it is not, whatever the limit and the spending.
C24_OnlyCurrentMonth ==
    [][StepOf({"form_add"}) =>
          \A today \in Todays :
              (/\ ~(today.month = Jan20.month /\ today.year = Jan20.year)
               /\ FormAddOf(today)) =>
                  op'.io \notin {<<"exceeded">>, <<"under">>}]_vars

\* warnings are on, the entry's category has a limit, and the check of an
\* entry was skipped for its month
C24_Witness ==
    /\ op = [kind |-> "form_add", io |-> <<"skipped">>]
    /\ spending_warnings_enabled
    /\ \E i \in 1..Len(entries) :
          /\ entries[i].category \in DOMAIN cat_mgr
          /\ cat_mgr[entries[i].category].limit = Some(1)

(***************************************************************************)
(* C27: surrounding whitespace makes a different category                  *)
(***************************************************************************)
\* C27: registering a valid name that differs from a registered category
\* only by surrounding whitespace succeeds and adds a second category: the
\* whitespace is kept in the stored name.
C27_WhitespaceDistinct ==
    [][StepOf({"editor_add"}) =>
          \A category \in AddInputs :
              (/\ to_lowercase(category) \notin DOMAIN cat_mgr
               /\ trim(to_lowercase(category)) \in DOMAIN cat_mgr
               /\ ~Refused(category)
               /\ EditorAddOf(category)) =>
                  /\ op'.io = <<"ok">>
                  /\ DOMAIN cat_mgr' = DOMAIN cat_mgr \cup {to_lowercase(category)}
                  /\ Cardinality(DOMAIN cat_mgr') = Cardinality(DOMAIN cat_mgr) + 1
                  /\ \A c \in DOMAIN cat_mgr : cat_mgr'[c] = cat_mgr[c]]_vars

C27_Witness ==
    /\ op = [kind |-> "editor_add", io |-> <<"ok">>]
    /\ {<<"a">>, <<" ", "a">>, <<"a", " ">>} \subseteq DOMAIN cat_mgr

(***************************************************************************)
(* C29: entries and their categories                                       *)
(***************************************************************************)
\* C29: whatever categories are registered and deleted, chosen in the form,
\* imported and added, every entry of the collection names a registered
\* category and the limit check never looks up a category that is not
\* registered.
C29_CategoriesRegistered ==
    pc \in {"app", "crashed"} =>
        /\ \A i \in 1..Len(entries) : entries[i].category \in DOMAIN cat_mgr
        /\ op.io # <<"panic">>


(***************************************************************************)
(* C28: several rows deleted in one frame                                  *)
(***************************************************************************)
\* the position in the collection (from 1) of the entry drawn at display row
\* d (from 0): get_entries_iter(reversed) walks the collection backwards
DisplayedAt(view, es, d) ==
    IF view.sort_order = "Decreasing" THEN Len(es) - d ELSE d + 1

\* the entries of es at the positions of keep, in their order
EntriesAt(es, keep) ==
    [k \in 1..Cardinality(keep) |-> es[AscendingSeq(keep)[k]]]

\* C28: a frame of the entry view in which any set of rows is marked, in the
\* ascending or in the reversed view, leaves exactly the entries that were
\* not drawn at a marked row, in their previous order.
\* (the frame records one write-through result for each marked row)
C28_MarkedRowsDeleted ==
    [][StepOf({"scroll_area"}) =>
          \A marked \in SUBSET (0..(Len(entries) - 1)) :
              (Len(op'.io) = Cardinality(marked) /\ ScrollAreaOn(AscendingSeq(marked))) =>
                  entries' = EntriesAt(entries,
                                 (1..Len(entries)) \
                                     {DisplayedAt(entry_view, entries, d) : d \in marked})]_vars

\* two rows were deleted in one frame of the reversed view and one entry is
\* left
C28_Witness ==
    /\ op.kind = "scroll_area"
    /\ Len(op.io) = 2
    /\ entry_view.sort_order = "Decreasing"
    /\ Len(entries) = 1


(***************************************************************************)
(* C25: the inbox of the file pick is a single slot                        *)
(***************************************************************************)
\* C25: the inbox holds at most one response; a poll that finds one takes
\* it, imports its data and leaves the inbox empty, and nothing is imported
\* that was not in the inbox at the poll; a producer's deposit replaces
\* whatever the inbox held.
C25_SingleSlot ==
    [][/\ Cardinality(file_pick'.value) <= 1
       /\ (StepOf({"import_button"}) /\ ~file_pick.locked /\ file_pick.value # None) =>
              /\ file_pick'.value = None
              /\ Unwrap(file_pick.value).kind = "FileData" =>
                    entries' = Unwrap(file_pick.value).data
       /\ (StepOf({"import_button"}) /\ entries' # entries) =>
              /\ ~file_pick.locked
              /\ file_pick.value = Some(FileResponse_FileData(entries'))
       /\ StepOf({"read"}) =>
              \A i \in 1..Len(tasks) :
                  ReadOf(i) =>
                      file_pick'.value = Some(file_response(fs, tasks[i].handle))]_vars

\* both producers read a file that parses and ended, nothing was imported,
\* and the inbox holds the entries of b.csv alone: those of a.csv, deposited
\* first, were overwritten
C25_Witness ==
    /\ pc = "wasm"
    /\ Len(tasks) = 2
    /\ tasks[1] = [pc |-> "done", handle |-> Some(PathA)]
    /\ tasks[2] = [pc |-> "done", handle |-> Some(PathB)]
    /\ entries = <<>>
    /\ ~plot_reset_next_frame
    /\ file_pick.value # None
    /\ Unwrap(file_pick.value).kind = "FileData"
    /\ Len(Unwrap(file_pick.value).data) = 1

(***************************************************************************)
(* C26: the poll does not block                                            *)
(***************************************************************************)
\* C26: a poll while a producer holds the lock changes nothing (the inbox,
\* the collection, the reset flag, the categories), logs nothing and does not
\* end the program; a poll of the unlocked inbox holding entries imports them.
C26_PollNonBlocking ==
    [][StepOf({"import_button"}) =>
          /\ file_pick.locked =>
                /\ file_pick' = file_pick
                /\ entries' = entries
                /\ plot_reset_next_frame' = plot_reset_next_frame
                /\ cat_mgr' = cat_mgr
                /\ pc' = pc
                /\ op'.io = <<>>
          /\ (/\ ~file_pick.locked
              /\ file_pick.value # None
              /\ Unwrap(file_pick.value).kind = "FileData") =>
                /\ entries' = Unwrap(file_pick.value).data
                /\ plot_reset_next_frame'
                /\ file_pick' = Mutex_new(None)]_vars

\* a frame was drawn while a producer held the lock and the inbox held a
\* response
C26_Witness ==
    /\ op.kind = "import_button"
    /\ file_pick.locked
    /\ file_pick.value # None
    /\ \E i \in 1..Len(tasks) : tasks[i].pc = "reading"

(***************************************************************************)
(* C30: the hand-off of the file pick and deadlock                         *)
(***************************************************************************)
\* C30: every producer task that was spawned ends with its deposit and the
\* release of the lock, and every response in the inbox is taken by the main
\* loop, also when an import is started while a producer holds the lock.
C30_NoDeadlock ==
    /\ \A i \in 1..MaxTasks :
          (Len(tasks) >= i) ~> (Len(tasks) >= i /\ tasks[i].pc = "done")
    /\ (file_pick.value # None) ~> (file_pick.value = None)


====
